---- MODULE Spec2Model ----
(***************************************************************************)
(* A model of the consensus core of axiomesh/axiom: the solo engine's      *)
(* event loop and ready-block loop (internal/consensus/solo/node.go), the  *)
(* client Prepare paths and the commit path of the solo and RBFT engines   *)
(* (pkg/order/rbft/node.go), the local transaction journal                 *)
(* (internal/txpool/tx_records.go), the archiver                           *)
(* (internal/ledger/archive/archive.go) and the trie traversals of the     *)
(* state ledger (internal/ledger/state_ledger.go).                         *)
(***************************************************************************)
EXTENDS Integers, Sequences, FiniteSets, TLC

(***************************************************************************)
(* Bounds of the model.                                                    *)
(***************************************************************************)
\* capacity used for recvCh, blockCh and commitC (maxChanSize in the code)
ChanCap == 1
\* number of batches the pool may form in one run
MaxBatches == 2
\* number of unbatched pending transactions the pool may hold
MaxPool == 1
\* config.Applied: the height of the ledger when the node is constructed
Applied == 2

\* per-batch transaction cap of the pool (BlockMaxTxNum)
BlockMaxTxNum == 1
\* number of transactions handed to the journal in one run
MaxJournalTxs == 2
\* TxRecordsBatchSize and TxRecordsBatchWrite (1000 and 100 in the code),
\* scaled down
TxRecordsBatchSize == 2
TxRecordsBatchWrite == 2
\* calls of rotate in a run
MaxRotates == 1
\* failures of the file system in a run
MaxWriteFailures == 1
\* attempts of the quorum check the model counts
MaxAttempts == 2
\* the largest number of validators of the quorum arithmetic
MaxValidators == 10
\* items of a call of SubmitTxsFromRemote
MaxRemoteTxs == 2
\* the highest block the archiver is called for
MaxArchiveHeight == 4
\* Config.Ledger.ArchiveBlockNum: heights between two snapshot rotations
ArchiveBlockNum == 2
\* maxBatchSize (64 MiB in the code), counted in entries and scaled down
maxBatchSize == 2
\* events, CommitEvents and timeouts counted after the cancellation
MaxAfterCancel == 2
\* the period ReportState of the RBFT engine tests the height against
HardCodedCheckpoint == 10
\* TxRecordPrefixLength
TxRecordPrefixLength == 8
\* checkpoint periods an epoch may configure
CheckpointPeriods == {1, 2}
\* StartBlock and EpochPeriod of the epoch the node is constructed in
FirstEpoch == [StartBlock |-> 1, EpochPeriod |-> 4]
\* StartBlock and EpochPeriod of the epoch that follows it
SecondEpoch == [StartBlock |-> 5, EpochPeriod |-> 3]

VARIABLES
    \* ---- solo.Node (src/internal/consensus/solo/node.go:33-57)
    started,        \* n.started
    ctxDone,        \* n.ctx cancelled by n.cancel()
    recvCh,         \* n.recvCh: events posted to the event loop, FIFO
    blockCh,        \* n.blockCh: proposals posted by the event loop
    commitC,        \* n.commitC: CommitEvents for the executor
    batchDigestM,   \* n.batchDigestM: block height -> batch digest
    lastExec,       \* n.lastExec
    epcCnf,         \* n.epcCnf: [startBlock, epochPeriod, checkpoint, enableGenEmptyBlock]
    getCurrentEpochInfoFunc, \* n.getCurrentEpochInfoFunc: what a call may return
    batchMgr,       \* n.batchMgr: timer name -> active
    txpool,         \* n.txpool: [pending, batches, next]
    lePc,           \* position of the listenEvent goroutine
    leCkpt,         \* the checkpoint being flattened by listenEvent
    lrbPc,          \* position of the listenReadyBlock goroutine
    lrbEv,          \* the CommitEvent listenReadyBlock is about to send
    txPreCheck,     \* n.txPreCheck: [pc, q, cur] of the pre-check worker
    \* ---- history of the run, for the properties
    applied,        \* config.Applied
    emitted,        \* block numbers sent on commitC, in order
    taken,          \* number of batches received from blockCh
    recorded,       \* every (height, digest) ever written to batchDigestM
    ckptLog,        \* the last checkpoint handled: what RemoveBatches got
    removedAll,     \* every digest ever passed to RemoveBatches
    lwLast,         \* the last reply of GetLowWatermark, -1 before the first
    leLog,          \* the last event handled by listenEvent: calls, config, timers
    ctxLog,         \* what the loops and the timers did since n.cancel()
    \* ---- the callers of Prepare, of either engine
    prep,           \* caller -> [eng, pc, ret, notReady, check, pool]
    txFeed,         \* callers whose transaction was sent on n.txFeed
    posted,         \* callers whose transaction was put on a consensus channel
    prechecked,     \* callers whose transaction reached the pre-check
    pooled,         \* callers whose transaction was admitted to the pool
    \* ---- rbft.Node (src/pkg/order/rbft/node.go:26-40)
    rbftStatus,     \* n.n.Status().Status
    rbftCtxDone,    \* n.ctx cancelled by n.cancel()
    rbftPc,         \* position of the goroutine started by Start
    rbftCur,        \* the TxWithResp that goroutine is replying to
    TxRespC,        \* n.txCache.TxRespC
    recvTxC,        \* n.txCache.recvTxC
    txCachePc,      \* position of n.txCache.listenEvent
    proposed,       \* callers whose transaction was passed to n.n.Propose
    \* ---- txRecords (src/internal/txpool/tx_records.go:35-41)
    jWriter,        \* r.writer: "nil", "devNull" or "file"
    jFile,          \* the bytes of the file at r.filePath
    jTxChan,        \* r.txChan
    jBuffer,        \* txBuffer of consumeTxs
    jInserted,      \* number of calls of insert2Chan
    jWritten,       \* the batches written to the file since it was created
    jRead,          \* the last read of the file and what had been written then
    jCtxDone,       \* r.ctx cancelled
    jPc,            \* position of consumeTxs: "run" or "done"
    jLate,          \* insert2Chan accepted a transaction after the cancellation
    jFaults,        \* failures the file system will still produce
    jLayout,        \* the records of the file in order: [tx, whole]
    jRot,           \* the last call of rotate and what it left
    jWindow,        \* rotate or load at work on r.writer: [phase, flushed]
    \* ---- rbft.Node: start, reports of the executor, remote transactions
    nodes,          \* len(n.stack.Nodes)
    connectedPeers, \* n.peerMgr.CountConnectedPeers()
    startLog,       \* Start: [attempts, connected at the check that passed]
    StateUpdating,  \* n.stack.StateUpdating
    StateUpdateHeight, \* n.stack.StateUpdateHeight
    rbftCheckpoint, \* the configured CheckpointPeriod
    reportLog,      \* the last ReportState: [height, live, calls]
    remoteLog,      \* the last SubmitTxsFromRemote: what it proposed, fed, returned
    \* ---- rbft.Node: the commit path
    ReadyC,         \* n.stack.ReadyC: what the adaptor's Execute published
    blockC,         \* n.blockC: CommitEvents for the executor
    rbftReported,   \* the height last reported to the consensus core
    commitLog,      \* every record published on ReadyC and put on blockC
    \* ---- archive.Archiver (src/internal/ledger/archive/archive.go:19-33)
    lastArchiveBlock, \* archiver.lastArchiveBlock
    archDisk,       \* the snapshot directory: [maxHeight, snapshots]
    archLog,        \* the last call of Archive: what it saw and did
    chainState,     \* archiver.chainState: [known, IsDataSyncer]
    archKV,         \* the archive stores: [journal, history, snapshot, open]
    archCall,       \* the call of Archive in progress: [height, pending]
    \* ---- StateLedgerImpl (src/internal/ledger/state_ledger.go:40-73)
    trieRun,        \* the last call of IterateTrie or GenerateSnapshot
    ledgerKV        \* the target of the last IterateTrie and l.snapshot: [kv, snapshot]

soloVars == <<started, ctxDone, recvCh, blockCh, commitC, batchDigestM,
              lastExec, epcCnf, getCurrentEpochInfoFunc, batchMgr, txpool,
              lePc, leCkpt, lrbPc, lrbEv, txPreCheck, applied, emitted, taken,
              recorded, ckptLog, removedAll, lwLast, leLog, ctxLog>>

\* what a Prepare of the solo engine leaves alone
soloRest == <<blockCh, commitC, batchDigestM, lastExec, epcCnf,
              getCurrentEpochInfoFunc, batchMgr,
              leCkpt, lrbPc, lrbEv, applied, emitted, taken, recorded,
              ckptLog, removedAll, lwLast, leLog>>

prepVars == <<prep, txFeed, posted, prechecked, pooled>>

rbftVars == <<rbftStatus, rbftCtxDone, rbftPc, rbftCur, TxRespC, recvTxC,
              txCachePc, proposed>>

jrnVars == <<jWriter, jFile, jTxChan, jBuffer, jInserted, jWritten, jRead,
             jCtxDone, jPc, jLate, jFaults, jLayout, jRot, jWindow>>

rbftAdmVars == <<nodes, connectedPeers, startLog, StateUpdating,
                 StateUpdateHeight, rbftCheckpoint, reportLog, remoteLog>>

\* the commit path of the RBFT engine
rbftCommitVars == <<ReadyC, blockC, rbftReported, commitLog>>

archVars == <<lastArchiveBlock, archDisk, archLog, chainState, archKV, archCall>>

trieVars == <<trieRun, ledgerKV>>

extVars == <<rbftCommitVars, archVars, trieVars>>

nonSoloVars == <<getCurrentEpochInfoFunc, prepVars, rbftVars, jrnVars,
                 rbftAdmVars, extVars>>

vars == <<soloVars, nonSoloVars>>

(***************************************************************************)
(* Helpers.                                                                *)
(***************************************************************************)
None == [typ |-> "none"]

Min(a, b) == IF a <= b THEN a ELSE b

\* a - b in uint64 arithmetic; the width is scaled from 64 to 30 bits
Uint64Sub(a, b) == (a - b + 2^30) % 2^30

\* a + b in uint64 arithmetic, at the same scaled width
Uint64Add(a, b) == (a + b) % 2^30

Range(s) == {s[i] : i \in 1..Len(s)}

\* all orders in which a range over a Go map may visit the key set S
Orders(S) ==
    {s \in [1..Cardinality(S) -> S] : \A i, j \in 1..Cardinality(S) : i # j => s[i] # s[j]}

\* insertion of x into the ascending sequence s
RECURSIVE InsertSorted(_, _)
InsertSorted(s, x) ==
    IF s = <<>> THEN <<x>>
    ELSE IF x <= Head(s) THEN <<x>> \o s
    ELSE <<Head(s)>> \o InsertSorted(Tail(s), x)

\* sortkeys.Uint64s: the sequence in ascending order
RECURSIVE SortUint64s(_)
SortUint64s(s) ==
    IF s = <<>> THEN <<>> ELSE InsertSorted(SortUint64s(Tail(s)), Head(s))

\* a flattening that leaves the entries in the map
MapDeleteNothing(m, S) == m

\* a Go map without the keys in S
MapDelete(m, S) == [k \in (DOMAIN m) \ S |-> m[k]]

\* a Go map with m[k] = v
MapPut(m, k, v) == [x \in (DOMAIN m) \cup {k} |-> IF x = k THEN v ELSE m[x]]

EmptyMap == [k \in {} |-> 0]

(***************************************************************************)
(* The batch timers (spec 4.4: Start, Stop, Restart, IsActive; an expired  *)
(* timer posts one TimeoutEvent and is not re-armed).                      *)
(***************************************************************************)
TimerNames == {"Batch", "NoTxBatch"}

StartTimer(mgr, name) == [mgr EXCEPT ![name] = TRUE]

StopTimer(mgr, name) == [mgr EXCEPT ![name] = FALSE]

RestartTimer(mgr, name) == StartTimer(StopTimer(mgr, name), name)

IsTimerActive(mgr, name) == mgr[name]

(***************************************************************************)
(* The transaction pool as the solo engine uses it (spec 4.2).  pending    *)
(* counts the pending transactions not yet in a batch, batches is the      *)
(* batch store, next the digest of the next batch formed.                  *)
(***************************************************************************)
HasPendingRequestInPool(pool) == pool.pending > 0

\* the results GenerateRequestBatch may return for a trigger
GenerateRequestBatch(pool, typ, enable) ==
    LET n == Min(pool.pending, BlockMaxTxNum)
        formed == {[res |-> "batch", BatchHash |-> pool.next, TxList |-> k] :
                      k \in IF typ = "NoTxTimeout"
                            THEN (IF pool.pending = 0 /\ enable THEN {0} ELSE {})
                            ELSE (IF pool.pending > 0 THEN {n} ELSE {})}
    IN  (IF pool.next <= MaxBatches THEN formed ELSE {})
        \cup (IF formed = {} THEN {[res |-> "nil", BatchHash |-> 0, TxList |-> 0]} ELSE {})
        \cup (IF pool.faulty THEN {[res |-> "err", BatchHash |-> 0, TxList |-> 0]} ELSE {})

\* the pool after GenerateRequestBatch returned out
PoolAfterGenerate(pool, out) ==
    IF out.res = "batch"
    THEN [pool EXCEPT !.pending = @ - out.TxList,
                      !.batches = @ \cup {out.BatchHash},
                      !.next = @ + 1]
    ELSE pool

RemoveBatches(pool, digestList) ==
    [pool EXCEPT !.batches = @ \ Range(digestList)]

(***************************************************************************)
(* Construction and start of the solo node.                                *)
(***************************************************************************)
NewNode(app, ckpt, enable, faulty) ==
    /\ started = FALSE
    /\ ctxDone = FALSE
    /\ recvCh = <<>>
    /\ blockCh = <<>>
    /\ commitC = <<>>
    /\ batchDigestM = EmptyMap
    /\ lastExec = app
    /\ epcCnf = [startBlock |-> FirstEpoch.StartBlock,
                 epochPeriod |-> FirstEpoch.EpochPeriod,
                 checkpoint |-> ckpt, enableGenEmptyBlock |-> enable]
    /\ batchMgr = [t \in TimerNames |-> FALSE]
    /\ txpool = [pending |-> 0, batches |-> {}, next |-> 1, faulty |-> faulty]
    /\ lePc = "init"
    /\ leCkpt = None
    /\ lrbPc = "init"
    /\ lrbEv = None
    /\ txPreCheck = [pc |-> "init", q |-> <<>>, cur |-> None]
    /\ applied = app
    /\ emitted = <<>>
    /\ taken = 0
    /\ recorded = EmptyMap
    /\ ckptLog = None
    /\ removedAll = {}
    /\ lwLast = -1

Alive == lePc # "panic"

\* Node.Start
Start ==
    /\ started = FALSE
    /\ ~ctxDone
    /\ batchMgr' =
         LET m == StartTimer(batchMgr, "Batch")
         IN  IF epcCnf.enableGenEmptyBlock /\ ~IsTimerActive(m, "NoTxBatch")
             THEN StartTimer(m, "NoTxBatch") ELSE m
    /\ txPreCheck' = [txPreCheck EXCEPT !.pc = "run"]
    /\ lePc' = "run"
    /\ lrbPc' = "run"
    /\ started' = TRUE
    /\ UNCHANGED nonSoloVars
    /\ UNCHANGED <<ctxDone, recvCh, blockCh, commitC, batchDigestM, lastExec,
                   epcCnf, txpool, leCkpt, lrbEv, applied, emitted, taken,
                   recorded, ckptLog, removedAll, lwLast, leLog, ctxLog>>

\* Node.Stop
Stop ==
    /\ Alive
    /\ started
    /\ ~ctxDone
    /\ ctxDone' = TRUE
    /\ UNCHANGED <<started, recvCh, blockCh, commitC, batchDigestM, lastExec,
                   epcCnf, batchMgr, txpool, lePc, leCkpt, lrbPc, lrbEv,
                   applied, emitted, taken, recorded, ckptLog, removedAll,
                   lwLast, leLog, ctxLog>>
    /\ UNCHANGED <<txPreCheck, nonSoloVars>>

(***************************************************************************)
(* Producers of events: postMsg blocks while recvCh is full.               *)
(***************************************************************************)
CanPost == Alive /\ started /\ Len(recvCh) < ChanCap

\* what happened since the context was cancelled: events listenEvent took
\* from recvCh, CommitEvents listenReadyBlock sent, timeouts the timers
\* posted.  It is kept in the runs that trace the cancellation.
AfterCancel(what) ==
    IF ctxLog = None \/ ~ctxDone THEN ctxLog
    ELSE [ctxLog EXCEPT ![what] = Min(@ + 1, MaxAfterCancel)]

postMsg(ev) == recvCh' = Append(recvCh, ev)

\* a timer expires: handleTimeoutEvent posts the TimeoutEvent
handleTimeoutEvent(name) ==
    /\ CanPost
    /\ IsTimerActive(batchMgr, name)
    /\ batchMgr' = [batchMgr EXCEPT ![name] = FALSE]
    /\ postMsg([typ |-> "timeout", name |-> name])
    /\ UNCHANGED <<started, ctxDone, blockCh, commitC, batchDigestM,
                   lastExec, epcCnf, txpool, lePc, leCkpt, lrbPc, lrbEv,
                   applied, emitted, taken, recorded, ckptLog, removedAll,
                   lwLast, leLog>>
    /\ ctxLog' = AfterCancel("timeouts")
    /\ UNCHANGED <<txPreCheck, nonSoloVars>>

\* the pool signals a threshold: notifyGenerateBatch posts a genBatchReq
notifyGenerateBatch ==
    /\ CanPost
    /\ txpool.pending >= BlockMaxTxNum
    /\ postMsg([typ |-> "genBatchReq", trigger |-> "Size"])
    /\ UNCHANGED <<started, ctxDone, blockCh, commitC, batchDigestM,
                   lastExec, epcCnf, batchMgr, txpool, lePc, leCkpt, lrbPc,
                   lrbEv, applied, emitted, taken, recorded, ckptLog,
                   removedAll, lwLast, leLog, ctxLog>>
    /\ UNCHANGED <<txPreCheck, nonSoloVars>>

\* Node.GetLowWatermark posts its request
GetLowWatermark ==
    /\ CanPost
    /\ postMsg([typ |-> "getLowWatermarkReq"])
    /\ UNCHANGED <<started, ctxDone, blockCh, commitC, batchDigestM,
                   lastExec, epcCnf, batchMgr, txpool, lePc, leCkpt, lrbPc,
                   lrbEv, applied, emitted, taken, recorded, ckptLog,
                   removedAll, lwLast, leLog, ctxLog>>
    /\ UNCHANGED <<txPreCheck, nonSoloVars>>

\* the executor takes the next CommitEvent and calls Node.ReportState
ReportState ==
    /\ CanPost
    /\ commitC # <<>>
    /\ \E ec \in BOOLEAN :
         postMsg([typ |-> "chainState", Height |-> Head(commitC).Number,
                  EpochChanged |-> ec])
    /\ commitC' = Tail(commitC)
    /\ UNCHANGED <<started, ctxDone, blockCh, batchDigestM, lastExec, epcCnf,
                   batchMgr, txpool, lePc, leCkpt, lrbPc, lrbEv, applied,
                   emitted, taken, recorded, ckptLog, removedAll, lwLast, leLog, ctxLog>>
    /\ UNCHANGED <<txPreCheck, nonSoloVars>>

\* a transaction is admitted to the pool
PoolAddTx ==
    /\ Alive
    /\ started
    /\ txpool.pending < MaxPool
    /\ txpool' = [txpool EXCEPT !.pending = @ + 1]
    /\ UNCHANGED <<started, ctxDone, recvCh, blockCh, commitC, batchDigestM,
                   lastExec, epcCnf, batchMgr, lePc, leCkpt, lrbPc, lrbEv,
                   applied, emitted, taken, recorded, ckptLog, removedAll,
                   lwLast, leLog, ctxLog>>
    /\ UNCHANGED <<txPreCheck, nonSoloVars>>

(***************************************************************************)
(* listenEvent: one action per case of the switch.  A handler that posts a *)
(* proposal waits while blockCh is full.                                   *)
(***************************************************************************)
NextEvent(typ) == lePc = "run" /\ recvCh # <<>> /\ Head(recvCh).typ = typ

\* what getCurrentEpochInfoFunc may return while the chain is in one of
\* the epochs given
EpochFetches(epochs) ==
    {[err |-> TRUE, StartBlock |-> 0, EpochPeriod |-> 0,
      CheckpointPeriod |-> 1, EnableTimedGenEmptyBlock |-> FALSE]}
    \cup {[err |-> FALSE, StartBlock |-> ep.StartBlock, EpochPeriod |-> ep.EpochPeriod,
           CheckpointPeriod |-> c, EnableTimedGenEmptyBlock |-> b] :
             ep \in epochs, c \in CheckpointPeriods, b \in BOOLEAN}

\* an update that keeps the epoch period of the old epoch
UpdateEpochConfigKeepsPeriod(cnf, cur) ==
    [startBlock |-> cur.StartBlock, epochPeriod |-> cnf.epochPeriod,
     enableGenEmptyBlock |-> cur.EnableTimedGenEmptyBlock,
     checkpoint |-> cur.CheckpointPeriod]

\* n.epcCnf after the four assignments from the fetched epoch
UpdateEpochConfig(cnf, cur) ==
    [startBlock |-> cur.StartBlock, epochPeriod |-> cur.EpochPeriod,
     enableGenEmptyBlock |-> cur.EnableTimedGenEmptyBlock,
     checkpoint |-> cur.CheckpointPeriod]

\* what listenEvent did for a chainState: the event, whether it took the
\* checkpoint branch, what the fetch returned, the epoch config before and
\* after, the timers when the case was done.  It is kept in the runs that
\* trace the handlers.
ChainStateHandled(e, ckpt, cur, cnf, mgr) ==
    IF leLog = None THEN None
    ELSE [typ |-> "chainState", Height |-> e.Height,
          EpochChanged |-> e.EpochChanged, ckpt |-> ckpt, fetched |-> cur,
          before |-> epcCnf, cnf |-> cnf, timers |-> mgr]

\* the EpochChanged part of the chainState case
HandleEpochChanged(e, ckpt) ==
    IF e.EpochChanged
    THEN \E cur \in getCurrentEpochInfoFunc :
           IF cur.err
           THEN /\ UNCHANGED <<epcCnf, batchMgr>>
                /\ leLog' = ChainStateHandled(e, ckpt, cur, epcCnf, batchMgr)
           ELSE /\ epcCnf' = UpdateEpochConfig(epcCnf, cur)
                /\ batchMgr' =
                     IF cur.EnableTimedGenEmptyBlock /\ ~IsTimerActive(batchMgr, "NoTxBatch")
                     THEN StartTimer(batchMgr, "NoTxBatch") ELSE batchMgr
                /\ leLog' = ChainStateHandled(e, ckpt, cur, epcCnf', batchMgr')
    ELSE /\ UNCHANGED <<epcCnf, batchMgr>>
         /\ leLog' = ChainStateHandled(e, ckpt, None, epcCnf, batchMgr)

\* whether the chainState case takes the checkpoint branch
IsCheckpoint(height, cnf) == height % cnf.checkpoint = 0

\* the chainState case up to the allocation of digestList
HandleChainState ==
    /\ NextEvent("chainState")
    /\ LET e == Head(recvCh) IN
         IF IsCheckpoint(e.Height, epcCnf)
         THEN /\ lePc' = "ckpt"
              /\ leCkpt' = [e |-> e, len |-> Cardinality(DOMAIN batchDigestM)]
              /\ UNCHANGED <<epcCnf, batchMgr, leLog, ctxLog>>
         ELSE /\ HandleEpochChanged(e, FALSE)
              /\ UNCHANGED <<lePc, leCkpt>>
    /\ recvCh' = Tail(recvCh)
    /\ UNCHANGED <<started, ctxDone, blockCh, commitC, batchDigestM,
                   lastExec, txpool, lrbPc, lrbEv, applied, emitted, taken,
                   recorded, ckptLog, removedAll, lwLast>>
    /\ ctxLog' = AfterCancel("handled")
    /\ UNCHANGED <<txPreCheck, nonSoloVars>>

\* a flattening that keeps the order of the range over the map
FlattenHeightsUnsorted(order) == order

\* the heights of batchDigestM in ascending order, from any range order
FlattenHeights(order) == SortUint64s(order)

\* digestList after the ForEach over heightList
FlattenDigests(m, heightList, len) ==
    [i \in 1..len |-> IF i <= Len(heightList) THEN m[heightList[i]] ELSE 0]

\* the rest of the checkpoint branch: range over batchDigestM, sort, fill
\* digestList and delete, RemoveBatches; then the EpochChanged part.  An
\* entry written by listenReadyBlock since digestList was allocated makes
\* heightList longer than digestList: the index is out of range.
FlattenCheckpoint ==
    /\ lePc = "ckpt"
    /\ \E order \in Orders(DOMAIN batchDigestM) :
         LET heightList == FlattenHeights(order)
             digestList == FlattenDigests(batchDigestM, heightList, leCkpt.len)
         IN  IF Len(heightList) > leCkpt.len
             THEN /\ lePc' = "panic"
                  /\ UNCHANGED <<batchDigestM, txpool, ckptLog, removedAll,
                                 epcCnf, batchMgr, leCkpt, leLog, ctxLog>>
             ELSE /\ batchDigestM' = MapDelete(batchDigestM, Range(heightList))
                  /\ txpool' = RemoveBatches(txpool, digestList)
                  /\ ckptLog' = [typ |-> "ckpt", Height |-> leCkpt.e.Height,
                                 heights |-> heightList, digests |-> digestList]
                  /\ removedAll' = removedAll \cup Range(digestList)
                  /\ HandleEpochChanged(leCkpt.e, TRUE)
                  /\ lePc' = "run"
                  /\ leCkpt' = None
    /\ UNCHANGED <<started, ctxDone, recvCh, blockCh, commitC, lastExec,
                   lrbPc, lrbEv, applied, emitted, taken, recorded, lwLast, ctxLog>>
    /\ UNCHANGED <<txPreCheck, nonSoloVars>>

\* postProposal
postProposal(out) ==
    IF out.res = "batch"
    THEN /\ Len(blockCh) < ChanCap
         /\ blockCh' = Append(blockCh, [BatchHash |-> out.BatchHash, TxList |-> out.TxList])
    ELSE UNCHANGED blockCh

\* what listenEvent did for a timeout or a genBatchReq: the event, whether
\* the pool had pending requests, the triggers GenerateRequestBatch was
\* called with, what it returned, the calls of postProposal, the timers
\* when the handler returned.  It is kept in the runs that trace the
\* handlers (leLog is not None).
Handled(typ, gen, res, post, mgr) ==
    IF leLog = None THEN None
    ELSE [typ |-> typ, pending |-> HasPendingRequestInPool(txpool),
          enable |-> epcCnf.enableGenEmptyBlock, gen |-> gen, res |-> res,
          posted |-> post, timers |-> mgr]

\* the deferred function of the Batch case of processBatchTimeout
DeferRestartNoTxBatch(mgr, pool, cnf) ==
    IF HasPendingRequestInPool(pool)
    THEN (IF cnf.enableGenEmptyBlock THEN RestartTimer(mgr, "NoTxBatch") ELSE mgr)
    ELSE mgr

\* a Batch case that leaves the Batch timer stopped
DeferRestartBatchForgotten(mgr) == mgr

\* the first deferred function of the Batch case: RestartTimer(timer.Batch)
DeferRestartBatch(mgr) == RestartTimer(mgr, "Batch")

\* a Batch case that generates a batch whatever the pool holds
BatchTimeoutGeneratesAlways(pool) == TRUE

\* the test of the Batch case before it generates a batch
BatchTimeoutGenerates(pool) == HasPendingRequestInPool(pool)

\* processBatchTimeout, case timer.Batch
HandleBatchTimeout ==
    /\ NextEvent("timeout")
    /\ Head(recvCh).name = "Batch"
    /\ LET m1 == StopTimer(batchMgr, "Batch") IN
         IF BatchTimeoutGenerates(txpool)
         THEN \E out \in GenerateRequestBatch(txpool, "Timeout", epcCnf.enableGenEmptyBlock) :
                /\ txpool' = PoolAfterGenerate(txpool, out)
                /\ postProposal(out)
                /\ batchMgr' = DeferRestartBatch(
                       DeferRestartNoTxBatch(StopTimer(m1, "NoTxBatch"), txpool', epcCnf))
                /\ leLog' = Handled("Batch", <<"Timeout">>, out.res,
                                    Len(blockCh') - Len(blockCh), batchMgr')
         ELSE /\ batchMgr' = DeferRestartBatch(m1)
              /\ leLog' = Handled("Batch", <<>>, "none", 0, batchMgr')
              /\ UNCHANGED <<txpool, blockCh>>
    /\ recvCh' = Tail(recvCh)
    /\ UNCHANGED <<started, ctxDone, commitC, batchDigestM, lastExec, epcCnf,
                   lePc, leCkpt, lrbPc, lrbEv, applied, emitted, taken,
                   recorded, ckptLog, removedAll, lwLast>>
    /\ ctxLog' = AfterCancel("handled")
    /\ UNCHANGED <<txPreCheck, nonSoloVars>>

\* processBatchTimeout, case timer.NoTxBatch
HandleNoTxBatchTimeout ==
    /\ NextEvent("timeout")
    /\ Head(recvCh).name = "NoTxBatch"
    /\ LET m1 == StopTimer(batchMgr, "NoTxBatch") IN
         /\ batchMgr' = IF epcCnf.enableGenEmptyBlock
                        THEN RestartTimer(m1, "NoTxBatch") ELSE m1
         /\ IF HasPendingRequestInPool(txpool)
            THEN /\ leLog' = Handled("NoTxBatch", <<>>, "none", 0, batchMgr')
                 /\ UNCHANGED <<txpool, blockCh>>
            ELSE \E out \in GenerateRequestBatch(txpool, "NoTxTimeout", epcCnf.enableGenEmptyBlock) :
                   /\ txpool' = PoolAfterGenerate(txpool, out)
                   /\ postProposal(out)
                   /\ leLog' = Handled("NoTxBatch", <<"NoTxTimeout">>, out.res,
                                       Len(blockCh') - Len(blockCh), batchMgr')
    /\ recvCh' = Tail(recvCh)
    /\ UNCHANGED <<started, ctxDone, commitC, batchDigestM, lastExec, epcCnf,
                   lePc, leCkpt, lrbPc, lrbEv, applied, emitted, taken,
                   recorded, ckptLog, removedAll, lwLast>>
    /\ ctxLog' = AfterCancel("handled")
    /\ UNCHANGED <<txPreCheck, nonSoloVars>>

\* a reply that names the next height instead of the last executed one
LowWatermarkReplyNext(le) == le + 1

\* the value sent on a getLowWatermarkReq's Resp channel
LowWatermarkReply(le) == le

\* case *getLowWatermarkReq
HandleGetLowWatermarkReq ==
    /\ NextEvent("getLowWatermarkReq")
    /\ lwLast' = LowWatermarkReply(lastExec)
    /\ recvCh' = Tail(recvCh)
    /\ UNCHANGED <<started, ctxDone, blockCh, commitC, batchDigestM,
                   lastExec, epcCnf, batchMgr, txpool, lePc, leCkpt, lrbPc,
                   lrbEv, applied, emitted, taken, recorded, ckptLog,
                   removedAll, leLog>>
    /\ ctxLog' = AfterCancel("handled")
    /\ UNCHANGED <<txPreCheck, nonSoloVars>>

\* case *genBatchReq
HandleGenBatchReq ==
    /\ NextEvent("genBatchReq")
    /\ LET m1 == StopTimer(StopTimer(batchMgr, "Batch"), "NoTxBatch") IN
         \E out \in GenerateRequestBatch(txpool, Head(recvCh).trigger, epcCnf.enableGenEmptyBlock) :
           /\ txpool' = PoolAfterGenerate(txpool, out)
           /\ postProposal(out)
           /\ batchMgr' = RestartTimer(
                  IF /\ out.res = "batch"
                     /\ epcCnf.enableGenEmptyBlock
                     /\ ~HasPendingRequestInPool(txpool')
                  THEN RestartTimer(m1, "NoTxBatch") ELSE m1,
                  "Batch")
           /\ leLog' = Handled("genBatchReq", <<Head(recvCh).trigger>>, out.res,
                               Len(blockCh') - Len(blockCh), batchMgr')
    /\ recvCh' = Tail(recvCh)
    /\ UNCHANGED <<started, ctxDone, commitC, batchDigestM, lastExec, epcCnf,
                   lePc, leCkpt, lrbPc, lrbEv, applied, emitted, taken,
                   recorded, ckptLog, removedAll, lwLast>>
    /\ ctxLog' = AfterCancel("handled")
    /\ UNCHANGED <<txPreCheck, nonSoloVars>>

\* case <-n.ctx.Done() of listenEvent
ListenEventExit ==
    /\ lePc = "run"
    /\ ctxDone
    /\ lePc' = "exit"
    /\ UNCHANGED <<started, ctxDone, recvCh, blockCh, commitC, batchDigestM,
                   lastExec, epcCnf, batchMgr, txpool, leCkpt, lrbPc, lrbEv,
                   applied, emitted, taken, recorded, ckptLog, removedAll,
                   lwLast, leLog, ctxLog>>
    /\ UNCHANGED <<txPreCheck, nonSoloVars>>

(***************************************************************************)
(* listenReadyBlock.                                                       *)
(***************************************************************************)
\* block.Number for the batch taken from blockCh
BlockNumber(le) == le + 1

\* a ready-block loop that forgets n.lastExec++
IncLastExecForgotten(le) == le

\* n.lastExec++
IncLastExec(le) == le + 1

\* localList of the ready-block loop: one true per transaction of the batch
LocalListAllTrue(n) == [i \in 1..n |-> TRUE]

\* executeEvent: only Block is set, LocalList keeps its zero value (nil)
CommitEvent(Number, TxList, localList) ==
    [Number |-> Number, TxList |-> TxList, LocalList |-> <<>>]

\* case e := <-n.blockCh, up to n.lastExec++
ReceiveBlock ==
    /\ Alive
    /\ lrbPc = "run"
    /\ blockCh # <<>>
    /\ LET e == Head(blockCh)
           Number == BlockNumber(lastExec)
       IN  /\ batchDigestM' = MapPut(batchDigestM, Number, e.BatchHash)
           /\ recorded' = MapPut(recorded, Number, e.BatchHash)
           /\ lrbEv' = CommitEvent(Number, e.TxList, LocalListAllTrue(e.TxList))
    /\ lastExec' = IncLastExec(lastExec)
    /\ blockCh' = Tail(blockCh)
    /\ taken' = taken + 1
    /\ lrbPc' = "send"
    /\ UNCHANGED <<started, ctxDone, recvCh, commitC, epcCnf, batchMgr,
                   txpool, lePc, leCkpt, applied, emitted, ckptLog,
                   removedAll, lwLast, leLog, ctxLog>>
    /\ UNCHANGED <<txPreCheck, nonSoloVars>>

\* n.commitC <- executeEvent
SendCommit ==
    /\ Alive
    /\ lrbPc = "send"
    /\ Len(commitC) < ChanCap
    /\ commitC' = Append(commitC, lrbEv)
    /\ emitted' = Append(emitted, lrbEv.Number)
    /\ lrbEv' = None
    /\ lrbPc' = "run"
    /\ UNCHANGED <<started, ctxDone, recvCh, blockCh, batchDigestM, lastExec,
                   epcCnf, batchMgr, txpool, lePc, leCkpt, applied, taken,
                   recorded, ckptLog, removedAll, lwLast, leLog>>
    /\ ctxLog' = AfterCancel("commits")
    /\ UNCHANGED <<txPreCheck, nonSoloVars>>

\* case <-n.ctx.Done() of listenReadyBlock
ListenReadyBlockExit ==
    /\ Alive
    /\ lrbPc = "run"
    /\ ctxDone
    /\ lrbPc' = "exit"
    /\ UNCHANGED <<started, ctxDone, recvCh, blockCh, commitC, batchDigestM,
                   lastExec, epcCnf, batchMgr, txpool, lePc, leCkpt, lrbEv,
                   applied, emitted, taken, recorded, ckptLog, removedAll,
                   lwLast, leLog, ctxLog>>
    /\ UNCHANGED <<txPreCheck, nonSoloVars>>

(***************************************************************************)
(* Node.Prepare of the solo engine and the path of its TxWithResp: the     *)
(* event loop forwards it to the pre-check (spec 4.1, 4.5), which answers  *)
(* on CheckCh and, when the check passed, admits the transaction to the    *)
(* pool and answers on PoolCh.  CheckCh and PoolCh are unbuffered: a send  *)
(* and its receive are one step.                                           *)
(***************************************************************************)
Clients == {"c1", "c2"}

IdleCall == [eng |-> "none", pc |-> "idle", ret |-> "none", notReady |-> FALSE,
             check |-> "none", pool |-> "none"]

\* no Prepare has been called
NewClients ==
    /\ prep = [c \in Clients |-> IdleCall]
    /\ txFeed = {}
    /\ posted = {}
    /\ prechecked = {}
    /\ pooled = {}

\* the caller's call with the fields in upd changed
Call(c, upd) == [prep EXCEPT ![c] = [f \in DOMAIN @ |-> IF f \in DOMAIN upd THEN upd[f] ELSE @[f]]]

\* a Ready that lets every caller through
ReadyAlways(st) == "nil"

\* Node.Ready
Ready(st) == IF ~st THEN "ErrorConsensusStart" ELSE "nil"

\* Node.Prepare up to the return of Ready; the deferred txFeed.Send runs at
\* every return
Prepare(c) ==
    /\ prep[c].pc = "idle"
    /\ LET err == Ready(started) IN
         IF err # "nil"
         THEN /\ prep' = Call(c, [eng |-> "solo", notReady |-> ~started,
                                  pc |-> "done", ret |-> err])
              /\ txFeed' = txFeed \cup {c}
         ELSE /\ prep' = Call(c, [eng |-> "solo", notReady |-> ~started,
                                  pc |-> "postMsg"])
              /\ UNCHANGED txFeed
    /\ UNCHANGED <<posted, prechecked, pooled>>
    /\ UNCHANGED <<started, ctxDone, recvCh, txpool, lePc, txPreCheck, soloRest, ctxLog, rbftVars>>
    /\ UNCHANGED <<jrnVars, rbftAdmVars, extVars>>

\* n.postMsg(txWithResp)
PreparePostMsg(c) ==
    /\ prep[c].pc = "postMsg"
    /\ Len(recvCh) < ChanCap
    /\ postMsg([typ |-> "txWithResp", c |-> c])
    /\ posted' = posted \cup {c}
    /\ prep' = Call(c, [pc |-> "waitCheck"])
    /\ UNCHANGED <<txFeed, prechecked, pooled>>
    /\ UNCHANGED <<started, ctxDone, txpool, lePc, txPreCheck, soloRest, ctxLog, rbftVars>>
    /\ UNCHANGED <<jrnVars, rbftAdmVars, extVars>>

\* case *common.TxWithResp of listenEvent
HandleTxWithResp ==
    /\ NextEvent("txWithResp")
    /\ txPreCheck' = [txPreCheck EXCEPT !.q = Append(@, Head(recvCh).c)]
    /\ recvCh' = Tail(recvCh)
    /\ UNCHANGED <<started, ctxDone, txpool, lePc, soloRest, nonSoloVars>>
    /\ ctxLog' = AfterCancel("handled")

\* the pre-check worker takes an event and verifies the transaction
PreCheckVerify ==
    /\ txPreCheck.pc = "run"
    /\ txPreCheck.cur = None
    /\ txPreCheck.q # <<>>
    /\ \E ok \in BOOLEAN :
         txPreCheck' = [txPreCheck EXCEPT
                          !.q = Tail(@),
                          !.cur = [typ |-> "CheckCh", c |-> Head(txPreCheck.q),
                                   Status |-> ok]]
    /\ prechecked' = prechecked \cup {Head(txPreCheck.q)}
    /\ UNCHANGED <<prep, txFeed, posted, pooled>>
    /\ UNCHANGED <<started, ctxDone, recvCh, txpool, lePc, soloRest, ctxLog, rbftVars>>
    /\ UNCHANGED <<jrnVars, rbftAdmVars, extVars>>

\* resp.Status as recorded with the call
StatusName(resp) == IF resp.Status THEN "true" ELSE "false"

\* a Prepare that takes every response for a success
StatusIgnored(resp) == TRUE

\* resp.Status
StatusOk(resp) == resp.Status

\* resp := <-txWithResp.CheckCh and the test of resp.Status
RecvCheckCh(c) ==
    /\ prep[c].pc = "waitCheck"
    /\ txPreCheck.cur # None
    /\ txPreCheck.cur.typ = "CheckCh"
    /\ txPreCheck.cur.c = c
    /\ LET resp == txPreCheck.cur IN
         /\ IF ~StatusOk(resp)
            THEN /\ prep' = Call(c, [check |-> StatusName(resp), pc |-> "done",
                                     ret |-> "ErrorPreCheck"])
                 /\ txFeed' = txFeed \cup {c}
            ELSE /\ prep' = Call(c, [check |-> StatusName(resp), pc |-> "waitPool"])
                 /\ UNCHANGED txFeed
         /\ txPreCheck' = [txPreCheck EXCEPT
                             !.cur = IF resp.Status
                                     THEN [typ |-> "admit", c |-> c]
                                     ELSE None]
    /\ UNCHANGED <<posted, prechecked, pooled>>
    /\ UNCHANGED <<started, ctxDone, recvCh, txpool, lePc, soloRest, ctxLog, rbftVars>>
    /\ UNCHANGED <<jrnVars, rbftAdmVars, extVars>>

\* the pre-check worker hands a checked transaction to the pool
PoolAdmit ==
    /\ txPreCheck.pc = "run"
    /\ txPreCheck.cur # None
    /\ txPreCheck.cur.typ = "admit"
    /\ \E ok \in (IF txpool.pending < MaxPool THEN BOOLEAN ELSE {FALSE}) :
         /\ txpool' = [txpool EXCEPT !.pending = IF ok THEN @ + 1 ELSE @]
         /\ pooled' = IF ok THEN pooled \cup {txPreCheck.cur.c} ELSE pooled
         /\ txPreCheck' = [txPreCheck EXCEPT
                             !.cur = [typ |-> "PoolCh", c |-> txPreCheck.cur.c,
                                      Status |-> ok]]
    /\ UNCHANGED <<prep, txFeed, posted, prechecked>>
    /\ UNCHANGED <<started, ctxDone, recvCh, lePc, soloRest, ctxLog, rbftVars>>
    /\ UNCHANGED <<jrnVars, rbftAdmVars, extVars>>

\* resp = <-txWithResp.PoolCh and the test of resp.Status
RecvPoolCh(c) ==
    /\ prep[c].pc = "waitPool"
    /\ txPreCheck.cur # None
    /\ txPreCheck.cur.typ = "PoolCh"
    /\ txPreCheck.cur.c = c
    /\ LET resp == txPreCheck.cur IN
         prep' = Call(c, [pool |-> StatusName(resp), pc |-> "done",
                          ret |-> IF ~StatusOk(resp) THEN "ErrorAddTxPool" ELSE "nil"])
    /\ txFeed' = txFeed \cup {c}
    /\ txPreCheck' = [txPreCheck EXCEPT !.cur = None]
    /\ UNCHANGED <<posted, prechecked, pooled>>
    /\ UNCHANGED <<started, ctxDone, recvCh, txpool, lePc, soloRest, ctxLog, rbftVars>>
    /\ UNCHANGED <<jrnVars, rbftAdmVars, extVars>>

\* the pre-check worker ends when n.ctx is cancelled
PreCheckExit ==
    /\ txPreCheck.pc = "run"
    /\ ctxDone
    /\ txPreCheck' = [txPreCheck EXCEPT !.pc = "exit"]
    /\ UNCHANGED <<started, ctxDone, recvCh, txpool, lePc, soloRest, ctxLog, nonSoloVars>>

(***************************************************************************)
(* The RBFT engine as far as Prepare goes: the caller, the goroutine       *)
(* started by Start (case TxRespC) and the TxCache that reads recvTxC.     *)
(***************************************************************************)
\* the values of n.n.Status().Status the model distinguishes
RbftStatuses == {"Pending", "Normal", "PoolFull"}

\* rbft.NewNode
RbftNewNode ==
    /\ rbftStatus = "Pending"
    /\ rbftCtxDone = FALSE
    /\ rbftPc = "init"
    /\ rbftCur = "none"
    /\ TxRespC = <<>>
    /\ recvTxC = <<>>
    /\ txCachePc = "init"
    /\ proposed = {}
    /\ ReadyC = <<>>
    /\ blockC = <<>>
    /\ rbftReported = Applied
    /\ commitLog = [published |-> <<>>, forwarded |-> <<>>]

\* Node.Quorum, on the uint64 N := uint64(len(n.stack.Nodes))
Quorum(N) ==
    LET f == Uint64Sub(N, 1) \div 3 IN Uint64Add(Uint64Add(N, f), 2) \div 2

\* a check that never fails
checkQuorumAlwaysNil(connected, N) == "nil"

\* Node.checkQuorum
checkQuorum(connected, N) ==
    IF connected + 1 < Quorum(N) THEN "err" ELSE "nil"

\* the strategies of retry.Retry in Start: strategy.Wait alone never ends
\* the attempts
ShouldAttempt(attempt) == TRUE

\* Node.Start: once retry.Retry has returned, go n.txCache.listenEvent() and
\* the goroutine of the loop
RbftStart ==
    /\ rbftPc = "init"
    /\ \/ ~ShouldAttempt(startLog.attempts)
       \/ checkQuorum(connectedPeers, nodes) = "nil"
    /\ startLog' = [startLog EXCEPT !.passed = ShouldAttempt(startLog.attempts),
                                    !.connected = connectedPeers]
    /\ rbftPc' = "run"
    /\ txCachePc' = "run"
    /\ UNCHANGED <<rbftStatus, rbftCtxDone, rbftCur, TxRespC, recvTxC, proposed>>
    /\ UNCHANGED <<soloVars, prepVars>>
    /\ UNCHANGED <<nodes, connectedPeers, StateUpdating, StateUpdateHeight,
                   rbftCheckpoint, reportLog, remoteLog>>
    /\ UNCHANGED <<jrnVars, extVars>>

\* Node.Stop
RbftStop ==
    /\ ~rbftCtxDone
    /\ rbftCtxDone' = TRUE
    /\ UNCHANGED <<rbftStatus, rbftPc, rbftCur, TxRespC, recvTxC, txCachePc, proposed>>
    /\ UNCHANGED <<soloVars, prepVars>>
    /\ UNCHANGED <<jrnVars, rbftAdmVars, extVars>>

\* the consensus core changes its status
RbftStatusChange ==
    /\ \E st \in RbftStatuses \ {rbftStatus} : rbftStatus' = st
    /\ UNCHANGED <<rbftCtxDone, rbftPc, rbftCur, TxRespC, recvTxC, txCachePc, proposed>>
    /\ UNCHANGED <<soloVars, prepVars>>
    /\ UNCHANGED <<jrnVars, rbftAdmVars, extVars>>

\* Node.Ready of the RBFT engine
RbftReady(status) == IF status # "Normal" THEN status ELSE "nil"

\* Node.Prepare up to the return of Ready
RbftPrepare(c) ==
    /\ prep[c].pc = "idle"
    /\ LET err == RbftReady(rbftStatus) IN
         prep' = Call(c, [eng |-> "rbft", notReady |-> rbftStatus # "Normal",
                          pc |-> IF err # "nil" THEN "done" ELSE "checkFull",
                          ret |-> IF err # "nil" THEN err ELSE "none"])
    /\ UNCHANGED <<txFeed, posted, prechecked, pooled>>
    /\ UNCHANGED <<soloVars, rbftVars>>
    /\ UNCHANGED <<jrnVars, rbftAdmVars, extVars>>

\* if n.txCache.IsFull() && n.n.Status().Status == rbft.PoolFull
RbftPrepareCheckFull(c) ==
    /\ prep[c].pc = "checkFull"
    /\ \E IsFull \in BOOLEAN :
         prep' = IF IsFull /\ rbftStatus = "PoolFull"
                 THEN Call(c, [pc |-> "done", ret |-> "ErrorCacheFull"])
                 ELSE Call(c, [pc |-> "sendTxRespC"])
    /\ UNCHANGED <<txFeed, posted, prechecked, pooled>>
    /\ UNCHANGED <<soloVars, rbftVars>>
    /\ UNCHANGED <<jrnVars, rbftAdmVars, extVars>>

\* n.txCache.TxRespC <- txWithResp
RbftPrepareSendTxRespC(c) ==
    /\ prep[c].pc = "sendTxRespC"
    /\ Len(TxRespC) < ChanCap
    /\ TxRespC' = Append(TxRespC, c)
    /\ posted' = posted \cup {c}
    /\ prep' = Call(c, [pc |-> "sendRecvTxC"])
    /\ UNCHANGED <<txFeed, prechecked, pooled>>
    /\ UNCHANGED <<rbftStatus, rbftCtxDone, rbftPc, rbftCur, recvTxC, txCachePc, proposed>>
    /\ UNCHANGED soloVars
    /\ UNCHANGED <<jrnVars, rbftAdmVars, extVars>>

\* n.txCache.recvTxC <- tx
RbftPrepareSendRecvTxC(c) ==
    /\ prep[c].pc = "sendRecvTxC"
    /\ Len(recvTxC) < ChanCap
    /\ recvTxC' = Append(recvTxC, c)
    /\ prep' = Call(c, [pc |-> "waitCh"])
    /\ UNCHANGED <<txFeed, posted, prechecked, pooled>>
    /\ UNCHANGED <<rbftStatus, rbftCtxDone, rbftPc, rbftCur, TxRespC, txCachePc, proposed>>
    /\ UNCHANGED soloVars
    /\ UNCHANGED <<jrnVars, rbftAdmVars, extVars>>

\* n.txCache.listenEvent takes a transaction from recvTxC
TxCacheListenEvent ==
    /\ txCachePc = "run"
    /\ recvTxC # <<>>
    /\ recvTxC' = Tail(recvTxC)
    /\ UNCHANGED <<rbftStatus, rbftCtxDone, rbftPc, rbftCur, TxRespC, txCachePc, proposed>>
    /\ UNCHANGED <<soloVars, prepVars>>
    /\ UNCHANGED <<jrnVars, rbftAdmVars, extVars>>

\* n.txCache.listenEvent ends when Stop closes n.txCache.close
TxCacheExit ==
    /\ txCachePc = "run"
    /\ rbftCtxDone
    /\ txCachePc' = "exit"
    /\ UNCHANGED <<rbftStatus, rbftCtxDone, rbftPc, rbftCur, TxRespC, recvTxC, proposed>>
    /\ UNCHANGED <<soloVars, prepVars>>
    /\ UNCHANGED <<jrnVars, rbftAdmVars, extVars>>

\* case txWithResp := <-n.txCache.TxRespC, up to the send on txWithResp.Ch;
\* a transaction that RbftMarshal rejects is not proposed
RbftLoopTxRespC ==
    /\ rbftPc = "run"
    /\ TxRespC # <<>>
    /\ \E marshalled \in BOOLEAN :
         proposed' = IF marshalled THEN proposed \cup {Head(TxRespC)} ELSE proposed
    /\ rbftCur' = Head(TxRespC)
    /\ TxRespC' = Tail(TxRespC)
    /\ rbftPc' = "reply"
    /\ UNCHANGED <<rbftStatus, rbftCtxDone, recvTxC, txCachePc>>
    /\ UNCHANGED <<soloVars, prepVars>>
    /\ UNCHANGED <<jrnVars, rbftAdmVars, extVars>>

\* txWithResp.Ch <- true meets <-txWithResp.Ch of the caller
RecvTxWithRespCh(c) ==
    /\ prep[c].pc = "waitCh"
    /\ rbftPc = "reply"
    /\ rbftCur = c
    /\ prep' = Call(c, [pc |-> "done", ret |-> "nil"])
    /\ rbftPc' = "run"
    /\ rbftCur' = "none"
    /\ UNCHANGED <<txFeed, posted, prechecked, pooled>>
    /\ UNCHANGED <<rbftStatus, rbftCtxDone, TxRespC, recvTxC, txCachePc, proposed>>
    /\ UNCHANGED soloVars
    /\ UNCHANGED <<jrnVars, rbftAdmVars, extVars>>

\* case <-n.ctx.Done() of the loop
RbftLoopExit ==
    /\ rbftPc = "run"
    /\ rbftCtxDone
    /\ rbftPc' = "exit"
    /\ UNCHANGED <<rbftStatus, rbftCtxDone, rbftCur, TxRespC, recvTxC, txCachePc, proposed>>
    /\ UNCHANGED <<soloVars, prepVars>>
    /\ UNCHANGED <<jrnVars, rbftAdmVars, extVars>>

(***************************************************************************)
(* The journal of local transactions (txRecords).  A file is a sequence of *)
(* bytes; a record is TxRecordPrefixLength bytes of little-endian length   *)
(* followed by the payload.                                                *)
(***************************************************************************)
Txs == {"t1", "t2", "t3"}

\* Constraint(tx).RbftMarshal(): payloads of different lengths, one of them
\* eight zero bytes, which read as the prefix of an empty record
RbftMarshal(tx) ==
    CASE tx = "t1" -> <<1>>
      [] tx = "t2" -> <<0, 0, 0, 0, 0, 0, 0, 0>>
      [] tx = "t3" -> <<2, 0>>

\* Constraint(tx).RbftUnmarshal(data): the transaction, or "err"
RbftUnmarshal(data) ==
    IF \E tx \in Txs : RbftMarshal(tx) = data
    THEN CHOOSE tx \in Txs : RbftMarshal(tx) = data
    ELSE "err"

\* a length no file of the model reaches; lengths from 2^24 on are read as it
TooLong == 16777216

\* binary.LittleEndian.PutUint64
PutUint64(length) ==
    [i \in 1..TxRecordPrefixLength |->
        IF i <= 3 THEN (length \div (256 ^ (i - 1))) % 256 ELSE 0]

\* binary.LittleEndian.Uint64
Uint64(lengthBytes) ==
    IF \E i \in 4..TxRecordPrefixLength : lengthBytes[i] # 0
    THEN TooLong
    ELSE lengthBytes[1] + 256 * lengthBytes[2] + 65536 * lengthBytes[3]

\* a length that counts the prefix too
RecordLengthWithPrefix(b) == Len(b) + TxRecordPrefixLength

\* length := uint64(len(b))
RecordLength(b) == Len(b)

\* the bytes batchWrite and rotate append for one transaction
Record(tx) ==
    LET b == RbftMarshal(tx) IN PutUint64(RecordLength(b)) \o b

\* allBytes of batchWrite
RECURSIVE AllBytes(_)
AllBytes(txBuffer) ==
    IF txBuffer = <<>> THEN <<>>
    ELSE Record(Head(txBuffer)) \o AllBytes(Tail(txBuffer))

\* the payloads the read loop of load and GetAllTxRecords takes from the
\* bytes: Peek ends the loop at EOF, with fewer than a prefix left too; a
\* ReadFull that fails has consumed the rest
RECURSIVE ReadRecords(_)
ReadRecords(bytes) ==
    IF Len(bytes) < TxRecordPrefixLength THEN <<>>
    ELSE LET length == Uint64(SubSeq(bytes, 1, TxRecordPrefixLength))
             rest == SubSeq(bytes, TxRecordPrefixLength + 1, Len(bytes))
         IN  IF length > Len(rest) THEN <<>>
             ELSE <<SubSeq(rest, 1, length)>>
                  \o ReadRecords(SubSeq(rest, length + 1, Len(rest)))

\* GetAllTxRecords
GetAllTxRecords(bytes) == ReadRecords(bytes)

\* the transactions load appends to its batch: a payload that RbftUnmarshal
\* rejects is skipped
RECURSIVE Unmarshalled(_)
Unmarshalled(payloads) ==
    IF payloads = <<>> THEN <<>>
    ELSE LET tx == RbftUnmarshal(Head(payloads))
         IN  (IF tx = "err" THEN <<>> ELSE <<tx>>) \o Unmarshalled(Tail(payloads))

\* the batches load sends on batchCh: TxRecordsBatchSize transactions each,
\* the rest at EOF
RECURSIVE LoadBatches(_)
LoadBatches(txs) ==
    IF txs = <<>> THEN <<>>
    ELSE IF Len(txs) >= TxRecordsBatchSize
    THEN <<SubSeq(txs, 1, TxRecordsBatchSize)>>
         \o LoadBatches(SubSeq(txs, TxRecordsBatchSize + 1, Len(txs)))
    ELSE <<txs>>

\* load
load(bytes) == LoadBatches(Unmarshalled(ReadRecords(bytes)))

\* the elements of a sequence of sequences, in order
RECURSIVE Flatten(_)
Flatten(ss) == IF ss = <<>> THEN <<>> ELSE Head(ss) \o Flatten(Tail(ss))

(***************************************************************************)
(* The RBFT engine: the quorum check of Start, the reports of the executor *)
(* and the transactions of remote nodes.                                   *)
(***************************************************************************)
\* the numbers of nodes and the checkpoint periods of the configurations
NodeCounts == {1, 4}

RbftCheckpointPeriods == {5, 10}

\* the block heights the executor reports and state updates aim at
Heights == {4, 5, 10, 20}

\* the state NewNode leaves besides RbftNewNode, for n nodes and a
\* configured checkpoint period
RbftConfig(n, period) ==
    /\ nodes = n
    /\ connectedPeers = 0
    /\ startLog = [attempts |-> 0, passed |-> FALSE, connected |-> 0]
    /\ StateUpdating = FALSE
    /\ StateUpdateHeight = 0
    /\ rbftCheckpoint = period
    /\ reportLog = None
    /\ remoteLog = None

\* a peer connects or disconnects
PeerChange ==
    /\ \E c \in (0..(nodes - 1)) \ {connectedPeers} : connectedPeers' = c
    /\ UNCHANGED <<nodes, startLog, StateUpdating, StateUpdateHeight,
                   rbftCheckpoint, reportLog, remoteLog>>
    /\ UNCHANGED <<soloVars, prepVars, rbftVars, jrnVars, extVars>>

\* Node.Start: an attempt of retry.Retry at which checkQuorum fails
RbftStartRetry ==
    /\ rbftPc = "init"
    /\ ShouldAttempt(startLog.attempts)
    /\ startLog.attempts < MaxAttempts
    /\ checkQuorum(connectedPeers, nodes) # "nil"
    /\ startLog' = [startLog EXCEPT !.attempts = @ + 1]
    /\ UNCHANGED <<nodes, connectedPeers, StateUpdating, StateUpdateHeight,
                   rbftCheckpoint, reportLog, remoteLog>>
    /\ UNCHANGED <<soloVars, prepVars, rbftVars, jrnVars, extVars>>

\* the adaptor begins a state update to a target height
StateUpdate ==
    /\ \E height \in Heights :
         /\ StateUpdating' = TRUE
         /\ StateUpdateHeight' = height
    /\ UNCHANGED <<nodes, connectedPeers, startLog, rbftCheckpoint, reportLog,
                   remoteLog>>
    /\ UNCHANGED <<soloVars, prepVars, rbftVars, jrnVars, extVars>>

\* a Live state that reports the execution twice
LiveReportCallsTwice(height) ==
    (IF height % HardCodedCheckpoint = 0
     THEN <<"ReportStableCheckpointFinished">> ELSE <<>>)
    \o <<"ReportExecuted", "ReportExecuted">>

\* the calls ReportState makes on the consensus core in the Live state
LiveReportCalls(height) ==
    (IF height % HardCodedCheckpoint = 0
     THEN <<"ReportStableCheckpointFinished">> ELSE <<>>)
    \o <<"ReportExecuted">>

\* a ReportState that takes every height for the target of the update
ReportIgnoredNever(updating, target, height) == FALSE

\* the test that makes ReportState return at once
ReportIgnored(updating, target, height) == updating /\ target # height

\* Node.ReportState of the RBFT engine, called with height
ReportStateOf(height) ==
    /\ IF ReportIgnored(StateUpdating, StateUpdateHeight, height)
       THEN /\ reportLog' = [typ |-> "report", height |-> height, live |-> FALSE, calls |-> <<>>]
            /\ UNCHANGED <<StateUpdating, rbftReported>>
       ELSE IF StateUpdating
       THEN /\ reportLog' = [typ |-> "report", height |-> height, live |-> FALSE,
                             calls |-> <<"ReportStateUpdated">>]
            /\ StateUpdating' = FALSE
            /\ rbftReported' = height
       ELSE /\ reportLog' = [typ |-> "report", height |-> height, live |-> TRUE,
                             calls |-> LiveReportCalls(height)]
            /\ rbftReported' = height
            /\ UNCHANGED StateUpdating
    /\ UNCHANGED <<nodes, connectedPeers, startLog, StateUpdateHeight,
                   rbftCheckpoint, remoteLog>>
    /\ UNCHANGED <<soloVars, prepVars, rbftVars, jrnVars, archVars, trieVars>>

\* the executor reports a height it reached
RbftReportState ==
    /\ \E height \in Heights : ReportStateOf(height)
    /\ UNCHANGED <<ReadyC, blockC, commitLog>>

\* Execute of the adaptor (spec 4.6): the next height is published on
\* ReadyC, in height order and only once the height before it has been
\* reported
AdaptorExecute ==
    /\ rbftPc = "run"
    /\ Len(ReadyC) < ChanCap
    /\ Len(commitLog.published) < MaxBatches
    /\ LET height == Applied + Len(commitLog.published) + 1 IN
         /\ rbftReported = height - 1
         /\ \E k \in 0..BlockMaxTxNum : \E local \in [1..k -> BOOLEAN] :
              LET r == [Height |-> height, TXs |-> k, LocalList |-> local]
              IN  /\ ReadyC' = Append(ReadyC, r)
                  /\ commitLog' = [commitLog EXCEPT !.published = Append(@, r)]
    /\ UNCHANGED <<blockC, rbftReported>>
    /\ UNCHANGED <<soloVars, prepVars, rbftVars, jrnVars, rbftAdmVars, archVars, trieVars>>

\* a loop that puts the CommitEvent of a ready record on blockC twice
ForwardCommitTwice(r) ==
    LET e == [Number |-> r.Height, TxList |-> r.TXs, LocalList |-> r.LocalList]
    IN  <<e, e>>

\* what the loop puts on blockC for the record r taken from ReadyC
ForwardCommit(r) ==
    <<[Number |-> r.Height, TxList |-> r.TXs, LocalList |-> r.LocalList]>>

\* case r := <-n.stack.ReadyC of the goroutine started by Start; the send
\* waits while blockC is full
RbftLoopReadyC ==
    /\ rbftPc = "run"
    /\ ReadyC # <<>>
    /\ Len(blockC) < ChanCap
    /\ blockC' = blockC \o ForwardCommit(Head(ReadyC))
    /\ ReadyC' = Tail(ReadyC)
    /\ commitLog' = [commitLog EXCEPT !.forwarded =
           @ \o [i \in 1..Len(ForwardCommit(Head(ReadyC))) |->
                    [e |-> ForwardCommit(Head(ReadyC))[i], reported |-> rbftReported]]]
    /\ UNCHANGED rbftReported
    /\ UNCHANGED <<soloVars, prepVars, rbftVars, jrnVars, rbftAdmVars, archVars, trieVars>>

\* the executor takes the next CommitEvent from Commit() and, the block
\* executed, calls ReportState with its height
ExecutorReportState ==
    /\ blockC # <<>>
    /\ ReportStateOf(Head(blockC).Number)
    /\ blockC' = Tail(blockC)
    /\ UNCHANGED <<ReadyC, commitLog>>

\* the items remote nodes send: encoded transactions and bytes that are not
RemoteItems == {RbftMarshal("t1"), RbftMarshal("t3"), <<9>>}

RemoteInputs == UNION {[1..n -> RemoteItems] : n \in 0..MaxRemoteTxs}

\* Node.SubmitTxsFromRemote: the decoded transactions go to txFeed, tsx as
\* it came to n.n.Propose, whose result is returned
SubmitTxsFromRemote ==
    /\ \E tsx \in RemoteInputs, err \in {"nil", "err"} :
         remoteLog' = [typ |-> "submit", tsx |-> tsx,
                       fed |-> Unmarshalled(tsx),
                       Requests |-> tsx, Local |-> TRUE, ret |-> err]
    /\ UNCHANGED <<nodes, connectedPeers, startLog, StateUpdating,
                   StateUpdateHeight, rbftCheckpoint, reportLog>>
    /\ UNCHANGED <<soloVars, prepVars, rbftVars, jrnVars, extVars>>

(***************************************************************************)
(* The journal: its writer, rotate and the readers of the file.            *)
(***************************************************************************)
\* w.Write(p) of a file: the number of bytes written; fewer than Len(p) is
\* an error, which a file system that still fails may return
WriteOutcomes(p, faults) ==
    {Len(p)} \cup (IF faults > 0 /\ p # <<>> THEN {0, Len(p) - 1} ELSE {})

\* the records a Write of the records of txBuffer leaves in the file when
\* it stops after n bytes: whole ones, then at most one that is cut
RECURSIVE WrittenRecords(_, _)
WrittenRecords(txBuffer, n) ==
    IF txBuffer = <<>> \/ n = 0 THEN <<>>
    ELSE LET len == Len(Record(Head(txBuffer)))
         IN  IF n >= len
             THEN <<[tx |-> Head(txBuffer), whole |-> TRUE]>>
                  \o WrittenRecords(Tail(txBuffer), n - len)
             ELSE <<[tx |-> Head(txBuffer), whole |-> FALSE]>>

\* no call of rotate yet
NoRotate == [calls |-> 0]

\* newTxRecords: no writer is open
newTxRecords ==
    /\ jWriter = "nil"
    /\ jTxChan = <<>>
    /\ jBuffer = <<>>
    /\ jInserted = 0
    /\ jRead = None
    /\ jCtxDone = FALSE
    /\ jPc = "run"
    /\ jLate = FALSE
    /\ jRot = NoRotate
    /\ jWindow = [phase |-> "none", flushed |-> <<>>]

\* the file at r.filePath when the node starts, holding the records a
\* previous run left, on a file system that will fail so many times
JournalFile(previous, faults) ==
    /\ jFile = AllBytes(previous)
    /\ jLayout = WrittenRecords(previous, Len(AllBytes(previous)))
    /\ jWritten = IF previous = <<>> THEN <<>> ELSE <<previous>>
    /\ jFaults = faults

\* an internalTransaction of a txSortedMap
Item(tx, local) == [rawTx |-> tx, local |-> local]

\* the account maps rotate is called with, each a sequence of accounts in
\* the order the range visits them, an account being its items in order
RotateInputs ==
    { <<>>,
      << <<Item("t1", TRUE)>> >>,
      << <<Item("t1", TRUE), Item("t3", FALSE)>>, <<Item("t2", TRUE)>> >>,
      << <<Item("t2", TRUE)>>, <<Item("t3", TRUE), Item("t1", TRUE)>> >> }

\* the transactions of the batches rotate writes to the replacement: a
\* batch goes out when it holds TxRecordsBatchSize records or when the
\* number of records equals the number of accounts, the rest after the loop
RECURSIVE RotateBatches(_, _, _, _)
RotateBatches(items, batch, record, lenAll) ==
    IF items = <<>> THEN (IF batch # <<>> THEN <<batch>> ELSE <<>>)
    ELSE LET internalTx == Head(items)
         IN  IF ~internalTx.local
             THEN RotateBatches(Tail(items), batch, record, lenAll)
             ELSE LET b == Append(batch, internalTx.rawTx)
                  IN  IF Len(b) >= TxRecordsBatchSize \/ record + 1 = lenAll
                      THEN <<b>> \o RotateBatches(Tail(items), <<>>, record + 1, lenAll)
                      ELSE RotateBatches(Tail(items), b, record + 1, lenAll)

\* the bytes of the replacement when the k-th Write stops after n bytes
\* (k = 0: every Write is complete); rotate logs the error and goes on
RECURSIVE ReplacementBytes(_, _, _)
ReplacementBytes(batches, k, n) ==
    IF batches = <<>> THEN <<>>
    ELSE LET all == AllBytes(Head(batches))
         IN  (IF k = 1 THEN SubSeq(all, 1, n) ELSE all)
             \o ReplacementBytes(Tail(batches), k - 1, n)

\* the records of the replacement, as ReplacementBytes
RECURSIVE ReplacementLayout(_, _, _)
ReplacementLayout(batches, k, n) ==
    IF batches = <<>> THEN <<>>
    ELSE WrittenRecords(Head(batches),
                        IF k = 1 THEN n ELSE Len(AllBytes(Head(batches))))
         \o ReplacementLayout(Tail(batches), k - 1, n)

\* the step of rotate that fails, if any: opening the replacement, a Write
\* to it, the rename, opening the renamed file for appending
RotateFailures(faults, batches) ==
    {"none"} \cup (IF faults > 0 THEN {"open", "rename", "sink"} ELSE {})
             \cup (IF faults > 0 /\ batches # <<>> THEN {"write"} ELSE {})

\* a sequence without its k-th element, the whole sequence when k = 0
RemoveAt(s, k) ==
    IF k = 0 THEN s
    ELSE [i \in 1..(Len(s) - 1) |-> IF i < k THEN s[i] ELSE s[i + 1]]

\* rotate from the replacement on: the records of the local transactions
\* of the account maps are written to the replacement, the replacement is
\* renamed to the file and the file opened for appending
rotateReplace ==
    /\ jRot.calls < MaxRotates
    /\ \E all \in RotateInputs :
         LET batches == RotateBatches(Flatten(all), <<>>, 0, Len(all)) IN
         \E fail \in RotateFailures(jFaults, batches) :
         \E k \in (IF fail = "write" THEN 1..Len(batches) ELSE {0}) :
         \E n \in (IF fail = "write"
                   THEN {0, Len(AllBytes(batches[k])) - 1} ELSE {0}) :
           LET renamed == fail \in {"none", "write", "sink"} IN
           /\ jFile' = IF renamed THEN ReplacementBytes(batches, k, n) ELSE jFile
           /\ jLayout' = IF renamed THEN ReplacementLayout(batches, k, n)
                         ELSE jLayout
           /\ jWritten' = IF renamed THEN RemoveAt(batches, k) ELSE jWritten
           /\ jWriter' = IF fail \in {"none", "write"} THEN "file" ELSE "nil"
           /\ jFaults' = IF fail = "none" THEN jFaults ELSE jFaults - 1
           /\ jRot' = [calls |-> jRot.calls + 1, all |-> all,
                       fail |-> fail,
                       ret |-> IF fail \in {"none", "write"} THEN "nil" ELSE "err"]
    /\ UNCHANGED <<jTxChan, jBuffer, jInserted, jRead, jCtxDone, jPc, jLate>>
    /\ UNCHANGED <<soloVars, prepVars, rbftVars, rbftAdmVars, extVars>>

\* rotate with no flush of consumeTxs in between: the writer is closed and
\* the replacement takes the place of the file
rotate ==
    /\ jWindow.phase = "none"
    /\ rotateReplace
    /\ UNCHANGED jWindow

\* rotate up to r.writer = nil: the writer is closed
RotateClose ==
    /\ jWindow.phase = "none"
    /\ jRot.calls < MaxRotates
    /\ jWriter' = "nil"
    /\ jWindow' = [jWindow EXCEPT !.phase = "rotate"]
    /\ UNCHANGED <<jFile, jTxChan, jBuffer, jInserted, jWritten, jRead, jCtxDone,
                   jPc, jLate, jFaults, jLayout, jRot>>
    /\ UNCHANGED <<soloVars, prepVars, rbftVars, rbftAdmVars, extVars>>

\* rotate after r.writer = nil, while consumeTxs went on
RotateReopen ==
    /\ jWindow.phase = "rotate"
    /\ rotateReplace
    /\ jWindow' = [jWindow EXCEPT !.phase = "none"]

\* insert2Chan: r.txChan <- tx, on the channel while it is open
insert2Chan ==
    /\ jPc = "run"
    /\ jInserted < MaxJournalTxs
    /\ Len(jTxChan) < TxRecordsBatchSize
    /\ \E tx \in Txs : jTxChan' = Append(jTxChan, tx)
    /\ jInserted' = jInserted + 1
    /\ jLate' = (jLate \/ jCtxDone)
    /\ UNCHANGED <<jWriter, jFile, jBuffer, jWritten, jRead, jCtxDone, jPc,
                   jFaults, jLayout, jRot, jWindow>>
    /\ UNCHANGED <<soloVars, prepVars, rbftVars, rbftAdmVars, extVars>>

\* the context of the journal is cancelled
JournalCancel ==
    /\ ~jCtxDone
    /\ jCtxDone' = TRUE
    /\ UNCHANGED <<jWriter, jFile, jTxChan, jBuffer, jInserted, jWritten, jRead,
                   jPc, jLate, jFaults, jLayout, jRot, jWindow>>
    /\ UNCHANGED <<soloVars, prepVars, rbftVars, rbftAdmVars, extVars>>

\* the transactions that consumeTxs has flushed while rotate or load was at
\* work on r.writer
Flushed(txBuffer) ==
    IF jWindow.phase = "none" THEN jWindow
    ELSE [jWindow EXCEPT !.flushed = @ \o txBuffer]

\* batchWrite(txBuffer): without a writer nothing is written and the error
\* "no active txRecords" is returned; devNull takes the bytes and keeps
\* nothing; a Write that fails has written a part
batchWrite ==
    IF jWriter \in {"nil", "devNull"}
    THEN UNCHANGED <<jFile, jWritten, jLayout, jFaults>>
    ELSE \E n \in WriteOutcomes(AllBytes(jBuffer), jFaults) :
           /\ jFile' = jFile \o SubSeq(AllBytes(jBuffer), 1, n)
           /\ jLayout' = jLayout \o WrittenRecords(jBuffer, n)
           /\ jWritten' = IF n = Len(AllBytes(jBuffer))
                          THEN Append(jWritten, jBuffer) ELSE jWritten
           /\ jFaults' = IF n = Len(AllBytes(jBuffer)) THEN jFaults
                         ELSE jFaults - 1

\* consumeTxs: the buffer has reached TxRecordsBatchWrite; whatever
\* batchWrite returns, txBuffer = txBuffer[:0]
ConsumeBatchFull ==
    /\ jPc = "run"
    /\ Len(jBuffer) >= TxRecordsBatchWrite
    /\ batchWrite
    /\ jBuffer' = <<>>
    /\ jWindow' = Flushed(jBuffer)
    /\ UNCHANGED <<jWriter, jTxChan, jInserted, jRead, jCtxDone, jPc, jLate,
                   jRot>>
    /\ UNCHANGED <<soloVars, prepVars, rbftVars, rbftAdmVars, extVars>>

\* consumeTxs: case tx := <-r.txChan
ConsumeTx ==
    /\ jPc = "run"
    /\ Len(jBuffer) < TxRecordsBatchWrite
    /\ jTxChan # <<>>
    /\ jBuffer' = Append(jBuffer, Head(jTxChan))
    /\ jTxChan' = Tail(jTxChan)
    /\ UNCHANGED <<jWriter, jFile, jInserted, jWritten, jRead, jCtxDone, jPc,
                   jLate, jFaults, jLayout, jRot, jWindow>>
    /\ UNCHANGED <<soloVars, prepVars, rbftVars, rbftAdmVars, extVars>>

\* consumeTxs: case <-ticker.C with a buffer that is not empty; whatever
\* batchWrite returns, txBuffer = txBuffer[:0]
ConsumeTicker ==
    /\ jPc = "run"
    /\ Len(jBuffer) < TxRecordsBatchWrite
    /\ Len(jBuffer) > 0
    /\ batchWrite
    /\ jBuffer' = <<>>
    /\ jWindow' = Flushed(jBuffer)
    /\ UNCHANGED <<jWriter, jTxChan, jInserted, jRead, jCtxDone, jPc, jLate,
                   jRot>>
    /\ UNCHANGED <<soloVars, prepVars, rbftVars, rbftAdmVars, extVars>>

\* consumeTxs: case <-r.ctx.Done(): close(r.txChan), then Finish writes
\* the buffer and consumeTxs returns
ConsumeCtxDone ==
    /\ jPc = "run"
    /\ Len(jBuffer) < TxRecordsBatchWrite
    /\ jCtxDone
    /\ IF Len(jBuffer) > 0 THEN batchWrite
       ELSE UNCHANGED <<jFile, jWritten, jLayout, jFaults>>
    /\ jWindow' = Flushed(jBuffer)
    /\ jPc' = "done"
    /\ UNCHANGED <<jWriter, jTxChan, jBuffer, jInserted, jRead, jCtxDone,
                   jLate, jRot>>
    /\ UNCHANGED <<soloVars, prepVars, rbftVars, rbftAdmVars, extVars>>

\* whether the read loop meets a length that make([]byte, length) may not
\* be able to allocate
RECURSIVE MeetsTooLong(_)
MeetsTooLong(bytes) ==
    IF Len(bytes) < TxRecordPrefixLength THEN FALSE
    ELSE LET length == Uint64(SubSeq(bytes, 1, TxRecordPrefixLength))
             rest == SubSeq(bytes, TxRecordPrefixLength + 1, Len(bytes))
         IN  IF length >= TooLong THEN TRUE
             ELSE IF length > Len(rest) THEN FALSE
             ELSE MeetsTooLong(SubSeq(rest, length + 1, Len(rest)))

\* load from the deferred r.writer = nil on: the writer is nil afterwards;
\* at EOF the goroutine sends the last batch and one value on taskDoneCh
loadRead ==
    /\ \E panic \in (IF MeetsTooLong(jFile) THEN BOOLEAN ELSE {FALSE}) :
         jRead' = [typ |-> "load", res |-> IF panic THEN <<>> ELSE load(jFile),
                   written |-> jWritten, layout |-> jLayout, panic |-> panic,
                   taskDone |-> IF panic THEN 0 ELSE 1]
    /\ jWriter' = "nil"
    /\ UNCHANGED <<jFile, jTxChan, jBuffer, jInserted, jWritten, jCtxDone, jPc,
                   jLate, jFaults, jLayout, jRot>>
    /\ UNCHANGED <<soloVars, prepVars, rbftVars, rbftAdmVars, extVars>>

\* load of the file with no flush of consumeTxs in between
LoadFile ==
    /\ jWindow.phase = "none"
    /\ loadRead
    /\ UNCHANGED jWindow

\* load up to r.writer = new(devNull)
LoadBegin ==
    /\ jWindow.phase = "none"
    /\ jWriter' = "devNull"
    /\ jWindow' = [jWindow EXCEPT !.phase = "load"]
    /\ UNCHANGED <<jFile, jTxChan, jBuffer, jInserted, jWritten, jRead, jCtxDone,
                   jPc, jLate, jFaults, jLayout, jRot>>
    /\ UNCHANGED <<soloVars, prepVars, rbftVars, rbftAdmVars, extVars>>

\* load returns after consumeTxs went on: the deferred r.writer = nil
LoadReturn ==
    /\ jWindow.phase = "load"
    /\ loadRead
    /\ jWindow' = [jWindow EXCEPT !.phase = "none"]

\* insert2Chan after consumeTxs has closed r.txChan: the send panics
InsertClosed ==
    /\ jPc = "done"
    /\ jInserted < MaxJournalTxs
    /\ jPc' = "panic"
    /\ UNCHANGED <<jWriter, jFile, jTxChan, jBuffer, jInserted, jWritten, jRead,
                   jCtxDone, jLate, jFaults, jLayout, jRot, jWindow>>
    /\ UNCHANGED <<soloVars, prepVars, rbftVars, rbftAdmVars, extVars>>

\* GetAllTxRecords of the file
GetAllFile ==
    /\ \E panic \in (IF MeetsTooLong(jFile) THEN BOOLEAN ELSE {FALSE}) :
         jRead' = [typ |-> "GetAllTxRecords",
                   res |-> IF panic THEN <<>> ELSE GetAllTxRecords(jFile),
                   written |-> jWritten, layout |-> jLayout, panic |-> panic,
                   taskDone |-> 0]
    /\ UNCHANGED <<jWriter, jFile, jTxChan, jBuffer, jInserted, jWritten,
                   jCtxDone, jPc, jLate, jFaults, jLayout, jRot, jWindow>>
    /\ UNCHANGED <<soloVars, prepVars, rbftVars, rbftAdmVars, extVars>>

(***************************************************************************)
(* The archiver (internal/ledger/archive/archive.go).  archDisk is what    *)
(* the snapshot directory holds: maxHeight, the value stored in the origin *)
(* storage under (ArchiveKey, MaxHeightStr), and snapshots, the heights N  *)
(* of the snapshot-<N>-<ts> directories.                                   *)
(***************************************************************************)
\* the test of Archive that lets the snapshot rotation begin
RotationDue(height, last) == ~(Uint64Sub(height, last) < ArchiveBlockNum)

\* the StateJournal of the block of a height: the journal of the account
\* trie, whose DirtySet holds the nodes of this version and one node that
\* the same block already replaced, and whose PruneSet holds the node of the
\* version before and the replaced one; a block of an even height also has
\* the journal of a storage trie and one code entry.  The node keys of two
\* tries never coincide
StateJournal(height) ==
    LET acc == [RootHash |-> <<"rootAcc", 0>>,
                DirtySet |-> {<<"acc", height>>, <<"accTmp", height>>},
                PruneSet |-> {<<"acc", height - 1>>, <<"accTmp", height>>}]
        st  == [RootHash |-> <<"rootSt", 0>>,
                DirtySet |-> {<<"st", height>>},
                PruneSet |-> {<<"st", height - 2>>}]
    IN  [TrieJournal |-> IF height % 2 = 0 THEN <<acc, st>> ELSE <<acc>>,
         CodeJournal |-> IF height % 2 = 0 THEN {<<"code", 0>>} ELSE {}]

\* the keys that the history batch puts: of every journal the root hash and
\* the DirtySet, then the CodeJournal
HistoryPuts(sj) ==
    UNION {{sj.TrieJournal[i].RootHash} \cup sj.TrieJournal[i].DirtySet :
              i \in 1..Len(sj.TrieJournal)}
    \cup sj.CodeJournal

\* the snapshot batch over the journals in order: of each journal the root
\* hash and the DirtySet are put, then the PruneSet is deleted
RECURSIVE SnapshotJournals(_, _)
SnapshotJournals(kv, journals) ==
    IF journals = <<>> THEN kv
    ELSE SnapshotJournals(
             (kv \cup {Head(journals).RootHash} \cup Head(journals).DirtySet)
                 \ Head(journals).PruneSet,
             Tail(journals))

\* the live snapshot after the snapshot batch of a block was committed
SnapshotApply(kv, sj) == SnapshotJournals(kv, sj.TrieJournal) \cup sj.CodeJournal

\* the three goroutines of Archive
ArchiveWriters == {"journal", "history", "snapshot"}

\* NewArchiver on a fresh snapshot directory and fresh stores; chainState
\* is nil (known = FALSE) until UpdateChainState; IsDataSyncer is what the
\* chain state of this node says once it was attached
NewArchiver ==
    /\ lastArchiveBlock = 0
    /\ archDisk = [maxHeight |-> 0, snapshots |-> {}]
    /\ archLog = None
    /\ chainState = [known |-> FALSE, attached |-> FALSE, IsDataSyncer |-> FALSE]
    /\ archKV = [journal |-> {}, history |-> {}, snapshot |-> {}, open |-> TRUE]
    /\ archCall = None

\* Archiver.UpdateChainState, between two calls of Archive: the chain state
\* of the node is attached; a node keeps its role over a restart
UpdateChainState ==
    /\ ~chainState.known
    /\ archCall = None
    /\ \E b \in IF chainState.attached THEN {chainState.IsDataSyncer} ELSE BOOLEAN :
         chainState' = [known |-> TRUE, attached |-> TRUE, IsDataSyncer |-> b]
    /\ UNCHANGED <<lastArchiveBlock, archDisk, archLog, archKV, archCall>>
    /\ UNCHANGED <<soloVars, prepVars, rbftVars, jrnVars, rbftAdmVars, rbftCommitVars, trieVars>>

\* the node restarts: NewArchiver opens the origin storage again and reads
\* lastArchiveBlock from it; the chain state is attached afterwards
ArchiverRestart ==
    /\ archLog # None
    /\ archCall = None
    /\ lastArchiveBlock' = archDisk.maxHeight
    /\ archLog' = None
    /\ chainState' = [chainState EXCEPT !.known = FALSE]
    /\ archKV' = [archKV EXCEPT !.open = TRUE]
    /\ UNCHANGED <<archDisk, archCall>>
    /\ UNCHANGED <<soloVars, prepVars, rbftVars, jrnVars, rbftAdmVars, rbftCommitVars, trieVars>>

\* where a rotation may fail: before the snapshot batch is committed, or
\* after the live snapshot was closed and the target directory was made
ArchiveFailures == {"none", "GetEpochInfo", "copyDir"}

\* what a call of Archive leaves in archLog
ArchiveReturned(height, wrote, pending, due, err, copy) ==
    [typ |-> "archive", height |-> height, known |-> chainState.known,
     IsDataSyncer |-> chainState.IsDataSyncer, last |-> lastArchiveBlock,
     wrote |-> wrote, pending |-> pending, rotate |-> due, err |-> err,
     copy |-> copy]

\* Archiver.Archive for the block of a height up to the start of the three
\* goroutines: a node whose chain state is attached and says that it is not
\* a data syncer returns at once
ArchiveBegin ==
    /\ archCall = None
    /\ \E height \in 1..MaxArchiveHeight :
         IF chainState.known /\ ~chainState.IsDataSyncer
         THEN /\ archLog' = ArchiveReturned(height, FALSE, {}, FALSE, "none", None)
              /\ UNCHANGED archCall
         ELSE /\ archCall' = [typ |-> "call", height |-> height,
                              pending |-> ArchiveWriters]
              /\ UNCHANGED archLog
    /\ UNCHANGED <<lastArchiveBlock, archDisk, chainState, archKV>>
    /\ UNCHANGED <<soloVars, prepVars, rbftVars, jrnVars, rbftAdmVars, rbftCommitVars, trieVars>>

\* one of the three goroutines commits its batch; a batch on the live
\* snapshot that an earlier failed rotation left closed panics
ArchiveWrite ==
    /\ archCall # None
    /\ \E w \in archCall.pending :
         LET sj == StateJournal(archCall.height)
         IN  IF w = "snapshot" /\ ~archKV.open
             THEN /\ archLog' = [typ |-> "panic", height |-> archCall.height]
                  /\ archCall' = None
                  /\ UNCHANGED archKV
             ELSE /\ archKV' =
                       CASE w = "journal" ->
                              [archKV EXCEPT !.journal = @ \cup {archCall.height}]
                         [] w = "history" ->
                              [archKV EXCEPT !.history = @ \cup HistoryPuts(sj)]
                         [] w = "snapshot" ->
                              [archKV EXCEPT !.snapshot = SnapshotApply(@, sj)]
                  /\ archCall' = [archCall EXCEPT !.pending = @ \ {w}]
                  /\ UNCHANGED archLog
    /\ UNCHANGED <<lastArchiveBlock, archDisk, chainState>>
    /\ UNCHANGED <<soloVars, prepVars, rbftVars, jrnVars, rbftAdmVars, rbftCommitVars, trieVars>>

\* a WaitGroup that lets Archive go on while goroutines are still writing
WaitGroupNoWait(pending) == TRUE

\* wg.Wait returns when every goroutine has called wg.Done
WaitGroupWait(pending) == pending = {}

\* Archiver.Archive from wg.Wait on: the rotation test and the rotation; on
\* a chain state that is still unset the rotation dereferences nil
Archive ==
    /\ archCall # None
    /\ WaitGroupWait(archCall.pending)
    /\ \E fail \in ArchiveFailures :
         LET height == archCall.height
             due == RotationDue(height, lastArchiveBlock)
             committed == due /\ fail # "GetEpochInfo"
             meta == archKV.snapshot \cup {<<"SnapshotMetaKey", 0>>}
         IN  IF due /\ ~chainState.known
             THEN /\ archLog' = [typ |-> "panic", height |-> height]
                  /\ UNCHANGED <<lastArchiveBlock, archDisk, archKV>>
             ELSE /\ archDisk' =
                       IF committed
                       THEN [maxHeight |-> height,
                             snapshots |-> archDisk.snapshots \cup {height}]
                       ELSE archDisk
                  /\ archKV' =
                       IF committed
                       THEN [archKV EXCEPT !.snapshot = meta,
                                           !.open = fail = "none"]
                       ELSE archKV
                  /\ lastArchiveBlock' =
                       IF due /\ fail = "none" THEN height ELSE lastArchiveBlock
                  /\ archLog' = ArchiveReturned(height, TRUE, archCall.pending, due,
                                    IF due THEN fail ELSE "none",
                                    IF committed /\ fail = "none"
                                    THEN [typ |-> "copy", kv |-> meta] ELSE None)
    /\ archCall' = None
    /\ UNCHANGED chainState
    /\ UNCHANGED <<soloVars, prepVars, rbftVars, jrnVars, rbftAdmVars, rbftCommitVars, trieVars>>

(***************************************************************************)
(* The traversals of the state ledger (internal/ledger/state_ledger.go).   *)
(* A trie is the sequence of the nodes its iterator yields; a leaf of the  *)
(* account trie names the storage root of its account, "none" for an       *)
(* account without storage.  A call is modelled by the operations it       *)
(* performs in order: puts into its batch, commits of the batch and sends  *)
(* on errC.                                                                *)
(***************************************************************************)
\* the states the ledger may hold: one plain account; an internal node, a
\* plain account and a contract account whose storage trie has two nodes;
\* a contract account with a storage slot whose value reads as an account
\* with the storage root r3, the root of another trie of the backend
Worlds ==
    LET Leaf(k, sr) == [kind |-> "leaf", RawKey |-> <<"node", k>>,
                        LeafKey |-> <<"leaf", k>>, StorageRoot |-> sr]
        Inner(k) == [kind |-> "internal", RawKey |-> <<"node", k>>,
                     LeafKey |-> <<>>, StorageRoot |-> "none"]
    IN  {[stateRoot |-> "r0",
          tries |-> [r \in {"r0"} |-> <<Leaf("a1", "none")>>]],
         [stateRoot |-> "r0",
          tries |-> [r \in {"r0", "r2"} |->
                       IF r = "r0"
                       THEN <<Inner("i0"), Leaf("a1", "none"), Leaf("a2", "r2")>>
                       ELSE <<Inner("i2"), Leaf("s1", "none")>>]],
         [stateRoot |-> "r0",
          tries |-> [r \in {"r0", "r2", "r3"} |->
                       IF r = "r0" THEN <<Leaf("a2", "r2")>>
                       ELSE IF r = "r2" THEN <<Leaf("s1", "r3")>>
                       ELSE <<Leaf("x1", "none")>>]]}

\* a traversal that resolves the leaves of every trie as accounts
IsContractAccountInAnyTrie(trieRoot, stateRoot, node) ==
    node.kind = "leaf" /\ node.StorageRoot # "none"

\* the test under which a leaf is resolved as a contract account: its
\* storage root is enqueued (and IterateTrie copies its code)
IsContractAccount(trieRoot, stateRoot, node) ==
    /\ trieRoot = stateRoot
    /\ node.kind = "leaf"
    /\ node.StorageRoot # "none"

\* the results of iter.Next over the whole traversal, in order: the nodes
\* of each trie of the queue (leaves only for IterateLeaf), each trie
\* closed by ErrorNoMoreData
TrieSteps(w, leafOnly) ==
    LET IsLeaf(n) == n.kind = "leaf"
        Yielded(root) == IF leafOnly THEN SelectSeq(w.tries[root], IsLeaf) ELSE w.tries[root]
        OfTrie(root) == [i \in 1..Len(Yielded(root)) |->
                            [typ |-> "node", root |-> root, node |-> Yielded(root)[i]]]
                        \o <<[typ |-> "end", root |-> root, node |-> None]>>
        \* queue = append(queue, acc.StorageRoot) for the nodes of one trie
        Enqueued(root) ==
            LET IsContract(n) == IsContractAccount(root, w.stateRoot, n)
                contracts == SelectSeq(Yielded(root), IsContract)
            IN  [i \in 1..Len(contracts) |-> contracts[i].StorageRoot]
        RECURSIVE Cat(_)
        Cat(q) == IF q = <<>> THEN <<>>
                  ELSE OfTrie(Head(q)) \o Cat(Tail(q) \o Enqueued(Head(q)))
    IN  Cat(<<w.stateRoot>>)

\* batch.Put
BatchPut(st, key) ==
    [st EXCEPT !.ops = Append(@, [op |-> "put", arg |-> key]),
               !.batch = @ \cup {key}]

\* batch.Commit, and batch.Reset after a periodic one
BatchCommit(st) ==
    [st EXCEPT !.ops = Append(@, [op |-> "commit", arg |-> st.batch]),
               !.batch = {}]

\* errC <- v
Send(st, v) == [st EXCEPT !.ops = Append(@, [op |-> "send", arg |-> v])]

\* the body of the inner loop for one node, and the put of the root entry
\* once a trie is exhausted
Visit(fn, w, step, st) ==
    IF step.typ = "end"
    THEN BatchPut(st, <<"root", step.root>>)
    ELSE LET node == step.node
             st1 == BatchPut(st, IF fn = "GenerateSnapshot" THEN node.LeafKey ELSE node.RawKey)
             st2 == IF Cardinality(st1.batch) > maxBatchSize THEN BatchCommit(st1) ELSE st1
         IN  IF /\ fn = "IterateTrie"
                /\ IsContractAccount(step.root, w.stateRoot, node)
             THEN BatchPut(st2, <<"code", node.LeafKey[2]>>)
             ELSE st2

\* the loop over the queue from the i-th result of iter.Next on; the
\* failAt-th result is an error other than ErrorNoMoreData (0: none is)
RECURSIVE Traverse(_, _, _, _, _, _)
Traverse(fn, w, steps, i, failAt, st) ==
    IF i > Len(steps) THEN [st EXCEPT !.done = TRUE]
    ELSE IF i = failAt THEN Send(st, "err")
    ELSE Traverse(fn, w, steps, i + 1, failAt, Visit(fn, w, steps[i], st))

\* StateLedgerImpl.IterateTrie: prune is "nil" for no prune cache, "err"
\* when its Rollback fails, "ok" otherwise
IterateTrieOps(w, prune, failAt, marshalErr) ==
    LET st0 == [ops |-> <<>>, batch |-> {}, done |-> FALSE]
        st1 == IF prune = "nil" THEN st0
               ELSE BatchPut(BatchPut(IF prune = "err" THEN Send(st0, "err") ELSE st0,
                                      <<"PruneJournalKey", "MinHeightStr">>),
                             <<"PruneJournalKey", "MaxHeightStr">>)
        t == Traverse("IterateTrie", w, TrieSteps(w, FALSE), 1, failAt, st1)
    IN  IF ~t.done THEN t
        ELSE IF marshalErr THEN Send(t, "err")
        ELSE Send(BatchCommit(BatchPut(t, <<"SnapshotMetaKey", 0>>)), "nil")

\* StateLedgerImpl.GenerateSnapshot
GenerateSnapshotOps(w, failAt) ==
    LET st0 == [ops |-> <<>>, batch |-> {}, done |-> FALSE]
        t == Traverse("GenerateSnapshot", w, TrieSteps(w, TRUE), 1, failAt, st0)
    IN  IF ~t.done THEN t ELSE Send(BatchCommit(t), "nil")

\* the keys a call has committed
Committed(ops) ==
    UNION {ops[i].arg : i \in {j \in 1..Len(ops) : ops[j].op = "commit"}}

\* the capacities the error channel of a call may have
ErrChanCaps == {0, 1}

\* whether the call returns when the caller takes one value from an error
\* channel of capacity cap: a send beyond that blocks for ever
Returns(ops, cap) ==
    Cardinality({i \in 1..Len(ops) : ops[i].op = "send"}) <= 1 + cap

\* no traversal has run
NewStateLedger ==
    /\ trieRun = None
    /\ ledgerKV = [kv |-> {}, snapshot |-> {}]

\* a call of IterateTrie with a target storage and an error channel
IterateTrie ==
    /\ \E w \in Worlds, prune \in {"nil", "ok", "err"}, marshalErr \in BOOLEAN :
         \E failAt \in 0..Len(TrieSteps(w, FALSE)) :
           LET t == IterateTrieOps(w, prune, failAt, marshalErr) IN
             /\ trieRun' = [typ |-> "IterateTrie", w |-> w, ops |-> t.ops,
                            complete |-> t.done,
                            failed |-> prune = "err" \/ failAt # 0 \/ marshalErr,
                            returned |-> [cap \in ErrChanCaps |-> Returns(t.ops, cap)]]
             /\ ledgerKV' = [ledgerKV EXCEPT !.kv = Committed(t.ops)]
    /\ UNCHANGED <<soloVars, prepVars, rbftVars, jrnVars, rbftAdmVars, rbftCommitVars, archVars>>

\* a call of GenerateSnapshot with an error channel
GenerateSnapshot ==
    /\ \E w \in Worlds : \E failAt \in 0..Len(TrieSteps(w, TRUE)) :
           LET t == GenerateSnapshotOps(w, failAt) IN
             /\ trieRun' = [typ |-> "GenerateSnapshot", w |-> w, ops |-> t.ops,
                            complete |-> t.done, failed |-> failAt # 0,
                            returned |-> [cap \in ErrChanCaps |-> Returns(t.ops, cap)]]
             /\ ledgerKV' = [ledgerKV EXCEPT !.snapshot = @ \cup Committed(t.ops)]
    /\ UNCHANGED <<soloVars, prepVars, rbftVars, jrnVars, rbftAdmVars, rbftCommitVars, archVars>>

(***************************************************************************)
(* The solo engine.                                                        *)
(***************************************************************************)
SoloInit ==
    /\ \E ckpt \in CheckpointPeriods, enable \in BOOLEAN :
          NewNode(Applied, ckpt, enable, TRUE)
    /\ NewClients
    /\ leLog = None
    /\ ctxLog = None
    /\ getCurrentEpochInfoFunc = EpochFetches({FirstEpoch})
    /\ RbftNewNode
    /\ RbftConfig(1, 10)
    /\ newTxRecords
    /\ NewArchiver
    /\ NewStateLedger
    /\ JournalFile(<<>>, 0)

BatchTimerFires == handleTimeoutEvent("Batch")

NoTxBatchTimerFires == handleTimeoutEvent("NoTxBatch")

SoloNext ==
    \/ Start
    \/ BatchTimerFires
    \/ NoTxBatchTimerFires
    \/ notifyGenerateBatch
    \/ GetLowWatermark
    \/ ReportState
    \/ PoolAddTx
    \/ HandleChainState
    \/ FlattenCheckpoint
    \/ HandleBatchTimeout
    \/ HandleNoTxBatchTimeout
    \/ HandleGetLowWatermarkReq
    \/ HandleGenBatchReq
    \/ ReceiveBlock
    \/ SendCommit

SoloSpec == SoloInit /\ [][SoloNext]_vars

\* the solo engine with its timeout and genBatchReq handlers traced
SoloTraceInit ==
    /\ \E ckpt \in CheckpointPeriods, enable \in BOOLEAN :
          NewNode(Applied, ckpt, enable, TRUE)
    /\ leLog = [typ |-> "start"]
    /\ ctxLog = None
    /\ getCurrentEpochInfoFunc = EpochFetches({FirstEpoch, SecondEpoch})
    /\ NewClients
    /\ RbftNewNode
    /\ RbftConfig(1, 10)
    /\ newTxRecords
    /\ NewArchiver
    /\ NewStateLedger
    /\ JournalFile(<<>>, 0)

SoloTraceNext ==
    \/ Start
    \/ BatchTimerFires
    \/ NoTxBatchTimerFires
    \/ notifyGenerateBatch
    \/ ReportState
    \/ PoolAddTx
    \/ HandleChainState
    \/ FlattenCheckpoint
    \/ HandleBatchTimeout
    \/ HandleNoTxBatchTimeout
    \/ HandleGenBatchReq
    \/ ReceiveBlock
    \/ SendCommit

SoloTraceSpec == SoloTraceInit /\ [][SoloTraceNext]_vars

\* the solo engine with Stop, and what its loops and timers do afterwards
SoloStopInit ==
    /\ \E ckpt \in CheckpointPeriods, enable \in BOOLEAN :
          NewNode(Applied, ckpt, enable, TRUE)
    /\ leLog = None
    /\ ctxLog = [handled |-> 0, commits |-> 0, timeouts |-> 0]
    /\ getCurrentEpochInfoFunc = EpochFetches({FirstEpoch})
    /\ NewClients
    /\ RbftNewNode
    /\ RbftConfig(1, 10)
    /\ newTxRecords
    /\ NewArchiver
    /\ NewStateLedger
    /\ JournalFile(<<>>, 0)

SoloStopNext ==
    \/ SoloTraceNext
    \/ Stop
    \/ ListenEventExit
    \/ ListenReadyBlockExit

SoloStopSpec == SoloStopInit /\ [][SoloStopNext]_vars

(***************************************************************************)
(* Properties of the solo engine.                                          *)
(***************************************************************************)

\* C1: the CommitEvents sent on commitC carry the block numbers Applied+1,
\* Applied+2, ... in the order they are sent: no gap and no repeat.
C1_CommitNumbersConsecutive ==
    \A i \in 1..Len(emitted) : emitted[i] = applied + i

\* two CommitEvents have been sent and a checkpoint has been handled
C1_Witness ==
    /\ Len(emitted) = 2
    /\ ckptLog # None

\* C2: once the event loop has handled ChainState(h) on a checkpoint height,
\* batchDigestM holds no entry for a height <= h and every digest recorded for
\* a height <= h has been passed to RemoveBatches.
C2_CheckpointEvicts ==
    ckptLog # None =>
        /\ \A k \in DOMAIN batchDigestM : k > ckptLog.Height
        /\ \A k \in DOMAIN recorded :
              k <= ckptLog.Height => recorded[k] \in removedAll

\* a checkpoint flattened two entries, one of them below the checkpoint height
C2_Witness ==
    /\ ckptLog # None
    /\ Len(ckptLog.heights) >= 2
    /\ \E i \in 1..Len(ckptLog.heights) : ckptLog.heights[i] < ckptLog.Height
    /\ \E i \in 1..Len(ckptLog.heights) : ckptLog.heights[i] = ckptLog.Height

\* C3: the digests passed to RemoveBatches at the checkpoint for height h are
\* those recorded for heights <= h only; the entry of a batch already given a
\* height above h is neither removed nor deleted from batchDigestM.
C3_RemovesOnlyUpToCheckpoint ==
    ckptLog # None =>
        \A i \in 1..Len(ckptLog.heights) : ckptLog.heights[i] <= ckptLog.Height

\* C4: the digest list handed to RemoveBatches at a checkpoint is in ascending
\* order of block height, one digest per recorded height, no slot left empty.
C4_DigestsAscendingByHeight ==
    ckptLog # None =>
        /\ Len(ckptLog.digests) = Len(ckptLog.heights)
        /\ \A i, j \in 1..Len(ckptLog.heights) :
              i < j => ckptLog.heights[i] < ckptLog.heights[j]
        /\ \A i \in 1..Len(ckptLog.digests) :
              /\ ckptLog.digests[i] # 0
              /\ ckptLog.digests[i] = recorded[ckptLog.heights[i]]

\* a checkpoint handed two digests to RemoveBatches
C4_Witness ==
    /\ ckptLog # None
    /\ Len(ckptLog.digests) = 2

\* the event loop is replying to a getLowWatermarkReq in this step
LowWatermarkReplied ==
    /\ NextEvent("getLowWatermarkReq")
    /\ recvCh' = Tail(recvCh)

\* C5: lastExec starts at config.Applied, grows by exactly one per batch taken
\* from blockCh and never decreases; a GetLowWatermark reply is lastExec at
\* the moment the request is handled, so successive replies do not decrease.
C5_LastExecMonotone ==
    /\ [](lastExec = applied + taken)
    /\ [][lastExec' >= lastExec]_vars
    /\ [][LowWatermarkReplied => (lwLast' = lastExec /\ lwLast' >= lwLast)]_vars

\* a reply was given and lastExec has grown since
C5_Witness ==
    /\ lwLast = applied + 1
    /\ lastExec = applied + 2

(***************************************************************************)
(* The solo engine with generation of empty blocks enabled, a pool that    *)
(* does not fail, timers that fire once armed, an executor that keeps      *)
(* draining commitC and goroutines that keep running.  A sender blocked on *)
(* a full channel is served when room is made again and again (SF); a loop *)
(* that can take its next step takes it (WF).                              *)
(***************************************************************************)
SoloLiveInit ==
    /\ \E ckpt \in CheckpointPeriods : NewNode(Applied, ckpt, TRUE, FALSE)
    /\ NewClients
    /\ leLog = None
    /\ ctxLog = None
    /\ getCurrentEpochInfoFunc = EpochFetches({FirstEpoch})
    /\ RbftNewNode
    /\ RbftConfig(1, 10)
    /\ newTxRecords
    /\ NewArchiver
    /\ NewStateLedger
    /\ JournalFile(<<>>, 0)

SoloFairness ==
    /\ WF_vars(Start)
    /\ SF_vars(BatchTimerFires)
    /\ SF_vars(NoTxBatchTimerFires)
    /\ SF_vars(ReportState)
    /\ WF_vars(HandleChainState)
    /\ WF_vars(FlattenCheckpoint)
    /\ WF_vars(HandleBatchTimeout)
    /\ WF_vars(HandleNoTxBatchTimeout)
    /\ WF_vars(HandleGetLowWatermarkReq)
    /\ WF_vars(HandleGenBatchReq)
    /\ WF_vars(ReceiveBlock)
    /\ WF_vars(SendCommit)

SoloLiveSpec == SoloLiveInit /\ [][SoloNext]_vars /\ SoloFairness

\* a CommitEvent with an empty transaction list is on commitC
EmptyCommitEmitted ==
    \E i \in 1..Len(commitC) : commitC[i].TxList = 0

\* C6: with enableGenEmptyBlock true, from every state after which the pool
\* stays empty (the event loop still running), a CommitEvent with an empty
\* transaction list is eventually emitted, again and again, for as long as
\* the pool can still form batches.
C6_EmptyBlocksKeepComing ==
    []( [](Alive /\ epcCnf.enableGenEmptyBlock /\ txpool.pending = 0)
          => <>(EmptyCommitEmitted \/ txpool.next > MaxBatches) )

(***************************************************************************)
(* Prepare of both engines: the callers, Start and Stop of each engine,    *)
(* the event loop's TxWithResp case, the pre-check worker, the RBFT loop   *)
(* and the TxCache.                                                        *)
(***************************************************************************)
PrepareInit ==
    /\ NewNode(Applied, 1, FALSE, FALSE)
    /\ NewClients
    /\ leLog = None
    /\ ctxLog = None
    /\ getCurrentEpochInfoFunc = EpochFetches({FirstEpoch})
    /\ RbftNewNode
    /\ RbftConfig(1, 10)
    /\ newTxRecords
    /\ NewArchiver
    /\ NewStateLedger
    /\ JournalFile(<<>>, 0)

\* the steps of a run in which the callers of Prepare are callers
PrepareSteps(callers) ==
    \/ Start
    \/ Stop
    \/ ListenEventExit
    \/ ListenReadyBlockExit
    \/ HandleTxWithResp
    \/ PreCheckVerify
    \/ PoolAdmit
    \/ PreCheckExit
    \/ \E c \in callers : Prepare(c)
    \/ \E c \in callers : PreparePostMsg(c)
    \/ \E c \in callers : RecvCheckCh(c)
    \/ \E c \in callers : RecvPoolCh(c)
    \/ RbftStart
    \/ RbftStop
    \/ RbftStatusChange
    \/ RbftLoopTxRespC
    \/ RbftLoopExit
    \/ TxCacheListenEvent
    \/ TxCacheExit
    \/ \E c \in callers : RbftPrepare(c)
    \/ \E c \in callers : RbftPrepareCheckFull(c)
    \/ \E c \in callers : RbftPrepareSendTxRespC(c)
    \/ \E c \in callers : RbftPrepareSendRecvTxC(c)
    \/ \E c \in callers : RecvTxWithRespCh(c)

PrepareNext == PrepareSteps(Clients)

PrepareSpec == PrepareInit /\ [][PrepareNext]_vars

\* the next step of a caller that is inside Prepare
CallerStep(c) ==
    \/ PreparePostMsg(c)
    \/ RecvCheckCh(c)
    \/ RecvPoolCh(c)
    \/ RbftPrepareCheckFull(c)
    \/ RbftPrepareSendTxRespC(c)
    \/ RbftPrepareSendRecvTxC(c)
    \/ RecvTxWithRespCh(c)

\* every goroutine that can take a step takes one; a caller blocked on a
\* full channel is served when room is made again and again
PrepareFairness ==
    /\ WF_vars(Start)
    /\ WF_vars(RbftStart)
    /\ WF_vars(HandleTxWithResp \/ ListenEventExit)
    /\ WF_vars(ListenReadyBlockExit)
    /\ WF_vars(PreCheckVerify \/ PoolAdmit \/ PreCheckExit)
    /\ WF_vars(RbftLoopTxRespC \/ RbftLoopExit)
    /\ WF_vars(TxCacheListenEvent \/ TxCacheExit)
    /\ \A c \in Clients : SF_vars(CallerStep(c))

\* the callers of the runs checked for termination
LiveClients == {"c1"}

\* the callers, loops and workers keep running; nothing obliges Stop
PrepareLiveSpec ==
    PrepareInit /\ [][PrepareSteps(LiveClients)]_vars /\ PrepareFairness

(***************************************************************************)
(* Properties of Prepare.                                                  *)
(***************************************************************************)

\* C7: a Prepare called while Ready reports an error (solo: not started,
\* RBFT: status other than Normal) has returned an error and its transaction
\* was put on no consensus channel, not pre-checked, not pooled, not proposed.
C7_NotReadyPrepareRejected ==
    \A c \in Clients :
        prep[c].notReady =>
            /\ prep[c].pc = "done"
            /\ prep[c].ret \notin {"none", "nil"}
            /\ c \notin posted \cup prechecked \cup pooled \cup proposed
            /\ \A i \in 1..Len(recvCh) :
                 recvCh[i].typ = "txWithResp" => recvCh[i].c # c
            /\ c \notin Range(TxRespC) \cup Range(recvTxC)

\* one caller was turned away by each engine
C7_Witness ==
    \E a, b \in Clients :
        /\ prep[a].eng = "solo" /\ prep[a].notReady
        /\ prep[b].eng = "rbft" /\ prep[b].notReady

\* C8: a solo Prepare on a started node returns the pre-check error exactly
\* when the CheckCh response has Status false, and then has not waited on
\* PoolCh; the pool error exactly when the check passed and the PoolCh
\* response has Status false; nil exactly when both have Status true.
C8_SoloPrepareResult ==
    \A c \in Clients :
        (prep[c].eng = "solo" /\ ~prep[c].notReady) =>
            /\ prep[c].check = "false" <=> prep[c].ret = "ErrorPreCheck"
            /\ prep[c].check = "false" => (prep[c].pc = "done" /\ prep[c].pool = "none")
            /\ (prep[c].check = "true" /\ prep[c].pool = "false")
                   <=> prep[c].ret = "ErrorAddTxPool"
            /\ (prep[c].check = "true" /\ prep[c].pool = "true")
                   <=> prep[c].ret = "nil"
            /\ prep[c].pc = "done" =>
                   prep[c].ret \in {"ErrorPreCheck", "ErrorAddTxPool", "nil"}

\* one caller failed the pre-check, another passed it and was refused by the pool
C8_Witness ==
    \E a, b \in Clients :
        /\ prep[a].eng = "solo" /\ prep[a].ret = "ErrorPreCheck"
        /\ prep[b].eng = "solo" /\ prep[b].ret = "ErrorAddTxPool"

\* C9: every Prepare that has been called eventually returns, in both
\* engines, whether or not Stop is called while it waits.
C9_PrepareReturns ==
    \A c \in Clients : [](prep[c].pc # "idle" => <>(prep[c].pc = "done"))

(***************************************************************************)
(* The journal: the pool hands transactions to insert2Chan, consumeTxs     *)
(* writes them in batches, rotate opens the file, load and GetAllTxRecords *)
(* read it.                                                                *)
(***************************************************************************)
JournalInit ==
    /\ NewNode(Applied, 1, FALSE, FALSE)
    /\ NewClients
    /\ leLog = None
    /\ ctxLog = None
    /\ getCurrentEpochInfoFunc = EpochFetches({FirstEpoch})
    /\ RbftNewNode
    /\ RbftConfig(1, 10)
    /\ newTxRecords
    /\ NewArchiver
    /\ NewStateLedger
    /\ JournalFile(<<>>, 0)

JournalNext ==
    \/ rotate
    \/ insert2Chan
    \/ ConsumeBatchFull
    \/ ConsumeTx
    \/ ConsumeTicker
    \/ JournalCancel
    \/ ConsumeCtxDone
    \/ LoadFile
    \/ GetAllFile

JournalSpec == JournalInit /\ [][JournalNext]_vars

\* the payloads of a sequence of transactions
Payloads(txs) == [i \in 1..Len(txs) |-> RbftMarshal(txs[i])]

\* C10: whatever the transactions and the flush batches they were written
\* in, load reads the file back as the transactions written, in order, and
\* GetAllTxRecords as their payloads, in order: none lost, none duplicated.
C10_JournalRoundTrip ==
    /\ jRead.typ = "load" => Flatten(jRead.res) = Flatten(jRead.written)
    /\ jRead.typ = "GetAllTxRecords" =>
           jRead.res = Payloads(Flatten(jRead.written))

\* three transactions with payloads of different lengths, written in two
\* batches, have been read back by load
C10_Witness ==
    /\ jRead.typ = "load"
    /\ Len(jRead.written) = 2
    /\ Len(Flatten(jRead.written)) = 3
    /\ "t2" \in Range(Flatten(jRead.written))
    /\ "t3" \in Range(Flatten(jRead.written))

(***************************************************************************)
(* The journal on a file system that may fail: a Write may stop part-way   *)
(* and return an error, and so may the steps of rotate.                    *)
(***************************************************************************)
JournalFaultInit ==
    /\ NewNode(Applied, 1, FALSE, FALSE)
    /\ NewClients
    /\ leLog = None
    /\ ctxLog = None
    /\ getCurrentEpochInfoFunc = EpochFetches({FirstEpoch})
    /\ RbftNewNode
    /\ RbftConfig(1, 10)
    /\ newTxRecords
    /\ NewArchiver
    /\ NewStateLedger
    /\ \E previous \in {<<>>, <<"t3">>} : JournalFile(previous, MaxWriteFailures)

JournalFaultSpec == JournalFaultInit /\ [][JournalNext]_vars

(***************************************************************************)
(* The RBFT engine: Start and its quorum check, Stop, the reports of the   *)
(* executor and the transactions of remote nodes.                          *)
(***************************************************************************)
RbftInit ==
    /\ NewNode(Applied, 1, FALSE, FALSE)
    /\ NewClients
    /\ leLog = None
    /\ ctxLog = None
    /\ getCurrentEpochInfoFunc = EpochFetches({FirstEpoch})
    /\ RbftNewNode
    /\ \E n \in NodeCounts, period \in RbftCheckpointPeriods : RbftConfig(n, period)
    /\ newTxRecords
    /\ NewArchiver
    /\ NewStateLedger
    /\ JournalFile(<<>>, 0)

RbftNext ==
    \/ PeerChange
    \/ RbftStartRetry
    \/ RbftStart
    \/ RbftStop
    \/ RbftLoopExit
    \/ TxCacheExit
    \/ StateUpdate
    \/ RbftReportState

RbftSpec == RbftInit /\ [][RbftNext]_vars

(***************************************************************************)
(* Properties of the journal on a file system that may fail.               *)
(***************************************************************************)
\* the transactions of the records of a file that were written whole
RECURSIVE WholeTxs(_)
WholeTxs(layout) ==
    IF layout = <<>> THEN <<>>
    ELSE (IF Head(layout).whole THEN <<Head(layout).tx>> ELSE <<>>)
         \o WholeTxs(Tail(layout))

\* the number of times x occurs in the sequence s
Count(x, s) == Cardinality({i \in 1..Len(s) : s[i] = x})

\* C11: load skips a malformed record and goes on: every record that was
\* written whole is delivered, whatever cut record precedes it, and the
\* completion is signalled once; GetAllTxRecords likewise returns the
\* payload of every whole record.
C11_MalformedRecordSkipped ==
    /\ jRead.typ = "load" =>
         /\ \A tx \in Txs :
              Count(tx, Flatten(jRead.res)) >= Count(tx, WholeTxs(jRead.layout))
         /\ jRead.taskDone = 1
    /\ jRead.typ = "GetAllTxRecords" =>
         \A tx \in Txs :
           Count(RbftMarshal(tx), jRead.res)
             >= Count(RbftMarshal(tx), Payloads(WholeTxs(jRead.layout)))

\* C12: the writer never drops a transaction: a step that empties the
\* buffer of consumeTxs appends the records of all its transactions to the
\* journal; after a flush that failed they are still buffered.
C12_FlushNeverDrops ==
    [][(jBuffer # <<>> /\ jBuffer' = <<>>)
           => jFile' = jFile \o AllBytes(jBuffer)]_vars

\* C13: when consumeTxs has returned after the cancellation, every
\* transaction accepted before the cancellation has been written: none of
\* them is left queued in txChan.
C13_CancelFlushesQueued ==
    (jPc = "done" /\ ~jLate) => jTxChan = <<>>

\* the transactions marked local in the account maps
LocalTxs(all) ==
    LET locals == SelectSeq(Flatten(all), LAMBDA internalTx : internalTx.local)
    IN  [i \in 1..Len(locals) |-> locals[i].rawTx]

\* C14: when rotate returns nil the journal holds exactly one record for
\* each local transaction of the account maps and no other record, and the
\* writer is open on the file.
C14_RotateWritesLocals ==
    [][(jRot'.calls > jRot.calls /\ jRot'.ret = "nil")
           => /\ Len(GetAllTxRecords(jFile')) = Len(LocalTxs(jRot'.all))
              /\ \A tx \in Txs :
                   Count(RbftMarshal(tx), GetAllTxRecords(jFile'))
                     = Count(tx, LocalTxs(jRot'.all))
              /\ jWriter' = "file"]_vars

\* C15: a rotate in which the replacement cannot be opened or a Write to
\* it fails leaves the journal file with the content it had.
C15_AbortedRotateKeepsFile ==
    [][(jRot'.calls > jRot.calls /\ jRot'.fail \in {"open", "write"})
           => jFile' = jFile]_vars

(***************************************************************************)
(* The transactions of the RBFT engine: Prepare of the local clients and   *)
(* SubmitTxsFromRemote of the peers, with Start, Stop and the status of    *)
(* the consensus core.                                                     *)
(***************************************************************************)
RbftTxNext ==
    \/ RbftStart
    \/ RbftStop
    \/ RbftStatusChange
    \/ \E c \in Clients :
         \/ RbftPrepare(c)
         \/ RbftPrepareCheckFull(c)
         \/ RbftPrepareSendTxRespC(c)
         \/ RbftPrepareSendRecvTxC(c)
         \/ RecvTxWithRespCh(c)
    \/ TxCacheListenEvent
    \/ TxCacheExit
    \/ RbftLoopTxRespC
    \/ RbftLoopExit
    \/ SubmitTxsFromRemote

RbftTxSpec == PrepareInit /\ [][RbftTxNext]_vars

(***************************************************************************)
(* Properties of the RBFT engine.                                          *)
(***************************************************************************)
\* C16: in the Live state ReportState(h) calls
\* ReportStableCheckpointFinished(h) exactly when h is a multiple of the
\* configured checkpoint period, before ReportExecuted, and ReportExecuted
\* once.
C16_ReportStateCheckpoint ==
    (reportLog.typ = "report" /\ reportLog.live) =>
        reportLog.calls =
            (IF reportLog.height % rbftCheckpoint = 0
             THEN <<"ReportStableCheckpointFinished">> ELSE <<>>)
            \o <<"ReportExecuted">>

\* C17: the transaction-cache listener, the forwarding loop and the
\* agreement node run only after a quorum check of Start has passed, with
\* connected peers + 1 >= Quorum(); Start never gives up the check.
C17_StartWaitsForQuorum ==
    (rbftPc # "init" \/ txCachePc # "init") =>
        /\ startLog.passed
        /\ startLog.connected + 1 >= Quorum(nodes)

\* with four nodes the check failed as many times as the model counts
\* before enough peers were connected and Start launched the loops
C17_Witness ==
    /\ nodes = 4
    /\ startLog.attempts = MaxAttempts
    /\ rbftPc = "run"
    /\ txCachePc = "run"
    /\ startLog.connected = 2

\* whether an item of the input of SubmitTxsFromRemote cannot be decoded
Undecodable(item) == RbftUnmarshal(item) = "err"

\* C18: SubmitTxsFromRemote returns an error when an item of its input
\* cannot be decoded and hands no such item to the agreement engine; it
\* returns nil only when every item decoded.
C18_RemoteDecodeFailure ==
    remoteLog.typ = "submit" =>
        /\ (\E i \in 1..Len(remoteLog.tsx) : Undecodable(remoteLog.tsx[i]))
              => remoteLog.ret # "nil"
        /\ \A i \in 1..Len(remoteLog.Requests) :
              ~Undecodable(remoteLog.Requests[i])

\* C19: the transactions of SubmitTxsFromRemote reach the engine marked
\* remote: the RequestSet proposed has Local = false.
C19_RemoteNotLocal ==
    remoteLog.typ = "submit" => remoteLog.Local = FALSE

\* C20: a Prepare of the RBFT engine that returned nil has had its
\* transaction proposed to the local agreement engine.
C20_PreparedProposedOnce ==
    \A c \in Clients :
        (prep[c].eng = "rbft" /\ prep[c].ret = "nil") => c \in proposed

(***************************************************************************)
(* C21.  Every CommitEvent carries a LocalList with its block.             *)
(***************************************************************************)
\* C21: every CommitEvent the solo engine has put on the commit channel
\* carries a LocalList with one entry per transaction of its block, every
\* entry true.
C21_CommitCarriesLocalList ==
    \A i \in 1..Len(commitC) :
        commitC[i].LocalList = LocalListAllTrue(commitC[i].TxList)

(***************************************************************************)
(* The commit path of the RBFT engine: the adaptor publishes on ReadyC,    *)
(* the loop forwards to blockC, the executor reports.                      *)
(***************************************************************************)
RbftCommitNext ==
    \/ RbftStart
    \/ RbftStop
    \/ RbftLoopExit
    \/ StateUpdate
    \/ AdaptorExecute
    \/ RbftLoopReadyC
    \/ ExecutorReportState

RbftCommitSpec == RbftInit /\ [][RbftCommitNext]_vars

ArchiveNext ==
    \/ UpdateChainState
    \/ ArchiveBegin
    \/ ArchiveWrite
    \/ Archive
    \/ ArchiverRestart

ArchiveSpec == JournalInit /\ [][ArchiveNext]_vars

(***************************************************************************)
(* C23.  The snapshot rotation is due exactly every ArchiveBlockNum        *)
(* heights.                                                                *)
(***************************************************************************)
\* C23: on a data syncer, Archive(height) begins the snapshot rotation
\* exactly when height - lastArchiveBlock >= ArchiveBlockNum as integers;
\* a call for a height below lastArchiveBlock does not rotate, and a
\* rotation lies at least ArchiveBlockNum heights after the one before it.
C23_RotationEveryArchiveBlockNum ==
    (archLog.typ = "archive" /\ archLog.wrote) =>
        /\ archLog.rotate = (archLog.height - archLog.last >= ArchiveBlockNum)
        /\ (archLog.height < archLog.last => ~archLog.rotate)
        /\ (archLog.rotate /\ archLog.last > 0 =>
               archLog.height >= archLog.last + ArchiveBlockNum)

(***************************************************************************)
(* The traversals of the state ledger alone.                               *)
(***************************************************************************)
LedgerNext ==
    \/ IterateTrie
    \/ GenerateSnapshot

LedgerSpec == JournalInit /\ [][LedgerNext]_vars

(***************************************************************************)
(* C24.  A traversal signals its completion once.                          *)
(***************************************************************************)
\* C24: a call of IterateTrie or GenerateSnapshot sends exactly one value
\* on its error channel and does nothing after it: nil, right after the
\* final commit of a complete traversal, or else the first error.
C24_OneCompletionSignal ==
    trieRun # None =>
        LET ops == trieRun.ops
            sends == {i \in 1..Len(ops) : ops[i].op = "send"}
        IN  /\ sends = {Len(ops)}
            /\ ops[Len(ops)].arg = (IF trieRun.failed THEN "err" ELSE "nil")
            /\ (~trieRun.failed =>
                   /\ trieRun.complete
                   /\ Len(ops) > 1
                   /\ ops[Len(ops) - 1].op = "commit")

(***************************************************************************)
(* C25.  The snapshot is flat: leaves only.                                *)
(***************************************************************************)
\* C25: every pair GenerateSnapshot puts into the snapshot is the key and
\* value of a leaf of the account trie or of a contract's storage trie: no
\* internal node and no root-node entry is written.
C25_SnapshotLeavesOnly ==
    (trieRun # None /\ trieRun.typ = "GenerateSnapshot") =>
        LET leaves == {n.LeafKey : n \in {m \in UNION {Range(trieRun.w.tries[r]) : r \in DOMAIN trieRun.w.tries} :
                                              m.kind = "leaf"}}
        IN  \A i \in 1..Len(trieRun.ops) :
                trieRun.ops[i].op = "put" => trieRun.ops[i].arg \in leaves

(***************************************************************************)
(* C26.  One task touches the mutable state of the solo engine.            *)
(***************************************************************************)
\* C26: while the event loop is inside the checkpoint branch, between the
\* allocation of digestList and the end of its range over batchDigestM, no
\* step of the ready-block loop writes batchDigestM or increments lastExec.
C26_EventLoopOwnsState ==
    [][~(/\ lePc = "ckpt"
         /\ lePc' = "ckpt"
         /\ (batchDigestM' # batchDigestM \/ lastExec' # lastExec))]_vars

(***************************************************************************)
(* C27.  The Batch timer is re-armed by every handler that stops it.       *)
(***************************************************************************)
\* C27: when the event loop has finished handling a Batch timeout or a
\* genBatchReq, the Batch timer is active, whatever the pool held and
\* whatever GenerateRequestBatch returned.
C27_BatchTimerRearmed ==
    (leLog.typ \in {"Batch", "genBatchReq"}) =>
        IsTimerActive(leLog.timers, "Batch")

\* a Batch timeout was handled whose GenerateRequestBatch returned an error
C27_Witness ==
    /\ leLog.typ = "Batch"
    /\ leLog.res = "err"
    /\ IsTimerActive(leLog.timers, "Batch")

(***************************************************************************)
(* C28.  The NoTxBatch timer after a Batch timeout.                        *)
(***************************************************************************)
\* C28: when a Batch timeout was handled with pending requests in the pool
\* and enableGenEmptyBlock true, the NoTxBatch timer the handler stopped is
\* active again when the handler returns, also when the batch took the
\* last pending transaction.
C28_NoTxBatchTimerRestarted ==
    (leLog.typ = "Batch" /\ leLog.pending /\ leLog.enable) =>
        IsTimerActive(leLog.timers, "NoTxBatch")

(***************************************************************************)
(* C29.  The NoTxBatch timeout.                                            *)
(***************************************************************************)
\* C29: on a NoTxBatch timeout a batch is generated and proposed only with
\* an empty pool and enableGenEmptyBlock true; in every other case neither
\* GenerateRequestBatch nor postProposal is called; when the handler
\* returns the NoTxBatch timer is active exactly when enableGenEmptyBlock
\* is true.
C29_NoTxBatchTimeout ==
    (leLog.typ = "NoTxBatch") =>
        /\ (leLog.res = "batch" \/ leLog.posted > 0) => (~leLog.pending /\ leLog.enable)
        /\ ~(~leLog.pending /\ leLog.enable) => (leLog.gen = <<>> /\ leLog.posted = 0)
        /\ IsTimerActive(leLog.timers, "NoTxBatch") = leLog.enable

(***************************************************************************)
(* C30.  The Batch timeout checks the pool first.                          *)
(***************************************************************************)
\* C30: on a Batch timeout with no pending request neither
\* GenerateRequestBatch nor postProposal is called; with pending requests
\* GenerateRequestBatch is called once, with the Timeout trigger, and its
\* result is posted exactly when it is a batch (not nil, no error).
C30_BatchTimeoutChecksPool ==
    (leLog.typ = "Batch") =>
        /\ ~leLog.pending => (leLog.gen = <<>> /\ leLog.posted = 0)
        /\ leLog.pending =>
              /\ leLog.gen = <<"Timeout">>
              /\ leLog.posted = (IF leLog.res = "batch" THEN 1 ELSE 0)

\* a Batch timeout found pending requests and posted the batch it got
C30_Witness ==
    /\ leLog.typ = "Batch"
    /\ leLog.pending
    /\ leLog.gen = <<"Timeout">>
    /\ leLog.res = "batch"
    /\ leLog.posted = 1

(***************************************************************************)
(* C31.  The NoTxBatch timer after a genBatchReq.                          *)
(***************************************************************************)
\* C31: when a genBatchReq was handled while enableGenEmptyBlock is true,
\* the NoTxBatch timer the handler stopped is active again when the handler
\* is done, whatever GenerateRequestBatch returned and whether or not the
\* pool still has pending requests.
C31_GenBatchReqRestartsNoTxBatch ==
    (leLog.typ = "genBatchReq" /\ leLog.enable) =>
        IsTimerActive(leLog.timers, "NoTxBatch")

(***************************************************************************)
(* C32.  The NoTxBatch timer after an epoch change.                        *)
(***************************************************************************)
\* C32: when a chainState with EpochChanged was handled and the fetch of
\* the epoch succeeded, the NoTxBatch timer is active exactly when the new
\* epoch's enableGenEmptyBlock is true.
C32_EpochChangeSetsNoTxBatchTimer ==
    (leLog.typ = "chainState" /\ leLog.EpochChanged /\ ~leLog.fetched.err) =>
        (IsTimerActive(leLog.timers, "NoTxBatch") = leLog.cnf.enableGenEmptyBlock)

(***************************************************************************)
(* C33.  The epoch config changes only on an epoch transition.             *)
(***************************************************************************)
\* a step in which listenEvent finishes the chainState case
ChainStateStep ==
    \/ /\ NextEvent("chainState")
       /\ recvCh' = Tail(recvCh)
       /\ lePc' = "run"
    \/ lePc = "ckpt" /\ lePc' = "run"

\* C33: n.epcCnf changes only in a step that handles a chainState with
\* EpochChanged whose fetch succeeded, and then its four fields are those
\* of the fetched epoch; after a failed fetch, and in every other step, it
\* is unchanged, and the loop goes on serving events; the checkpoint test
\* of the same chainState used the checkpoint period of the old epoch.
C33_EpochConfigChangesOnTransition ==
    [][ IF ChainStateStep
        THEN /\ leLog'.typ = "chainState"
             /\ leLog'.before = epcCnf
             /\ leLog'.cnf = epcCnf'
             /\ leLog'.ckpt = (leLog'.Height % epcCnf.checkpoint = 0)
             /\ lePc' = "run"
             /\ IF leLog'.EpochChanged /\ ~leLog'.fetched.err
                THEN epcCnf' = [startBlock |-> leLog'.fetched.StartBlock,
                                epochPeriod |-> leLog'.fetched.EpochPeriod,
                                checkpoint |-> leLog'.fetched.CheckpointPeriod,
                                enableGenEmptyBlock |->
                                    leLog'.fetched.EnableTimedGenEmptyBlock]
                ELSE epcCnf' = epcCnf
        ELSE epcCnf' = epcCnf ]_vars

\* a chainState at a checkpoint of the old epoch, not one of the new epoch,
\* took the checkpoint branch and then moved the config to the next epoch
C33_Witness ==
    /\ leLog.typ = "chainState"
    /\ leLog.EpochChanged
    /\ ~leLog.fetched.err
    /\ leLog.ckpt
    /\ leLog.Height % leLog.cnf.checkpoint # 0
    /\ leLog.cnf.startBlock = SecondEpoch.StartBlock
    /\ leLog.cnf.epochPeriod = SecondEpoch.EpochPeriod
    /\ epcCnf = leLog.cnf

(***************************************************************************)
(* C34.  What runs after Stop.                                             *)
(***************************************************************************)
\* C34: after Stop cancelled the context, listenEvent takes at most one
\* further event from recvCh, listenReadyBlock sends at most one further
\* CommitEvent, and both timers are stopped: no timeout is posted any more.
C34_StopDrainsAtMostOne ==
    ctxDone =>
        /\ ctxLog.handled <= 1
        /\ ctxLog.commits <= 1
        /\ ctxLog.timeouts = 0
        /\ \A t \in TimerNames : ~IsTimerActive(batchMgr, t)

(***************************************************************************)
(* C35, C36.  ReportState of the RBFT engine and the state update.         *)
(***************************************************************************)
\* C35: while StateUpdating is true, ReportState(h) with h different from
\* StateUpdateHeight makes no call on the consensus core and leaves
\* StateUpdating and StateUpdateHeight as they are.
C35_StaleReportIgnored ==
    [][ ( /\ StateUpdating
          /\ reportLog' # reportLog
          /\ reportLog'.height # StateUpdateHeight )
        => /\ reportLog'.calls = <<>>
           /\ StateUpdating'
           /\ StateUpdateHeight' = StateUpdateHeight
           /\ rbftReported' = rbftReported ]_vars

\* a report of another height was ignored during a state update
C35_Witness ==
    /\ StateUpdating
    /\ reportLog.typ = "report"
    /\ reportLog.height # StateUpdateHeight
    /\ reportLog.calls = <<>>
    /\ ~reportLog.live

\* the number of calls of fn among calls
CallsOf(calls, fn) == Cardinality({i \in 1..Len(calls) : calls[i] = fn})

\* C36: during a state update ReportState(h) with h = StateUpdateHeight
\* calls ReportStateUpdated once, for h, calls neither ReportExecuted nor
\* ReportStableCheckpointFinished, and clears StateUpdating; StateUpdating
\* is cleared by no other step; every ReportState in the Live state calls
\* ReportExecuted exactly once and stays Live.
C36_StateUpdateMachine ==
    [][ /\ ( /\ StateUpdating
             /\ reportLog' # reportLog
             /\ reportLog'.height = StateUpdateHeight )
           => /\ reportLog'.calls = <<"ReportStateUpdated">>
              /\ ~StateUpdating'
        /\ (StateUpdating /\ ~StateUpdating')
           => /\ reportLog'.typ = "report"
              /\ reportLog'.height = StateUpdateHeight
              /\ reportLog'.calls = <<"ReportStateUpdated">>
              /\ rbftReported' = StateUpdateHeight
        /\ (~StateUpdating /\ reportLog' # reportLog)
           => /\ reportLog'.live
              /\ CallsOf(reportLog'.calls, "ReportExecuted") = 1
              /\ CallsOf(reportLog'.calls, "ReportStateUpdated") = 0
              /\ ~StateUpdating' ]_vars

\* the report of the target height ended a state update
C36_Witness ==
    /\ ~StateUpdating
    /\ reportLog.typ = "report"
    /\ ~reportLog.live
    /\ reportLog.calls = <<"ReportStateUpdated">>
    /\ reportLog.height = StateUpdateHeight

(***************************************************************************)
(* C37.  What IterateTrie leaves in the target storage.                    *)
(***************************************************************************)
\* the storage roots of the contract accounts of the account trie of w
ContractRoots(w) ==
    {n.StorageRoot : n \in {m \in Range(w.tries[w.stateRoot]) :
                               m.kind = "leaf" /\ m.StorageRoot # "none"}}

\* what a complete copy of the state of w holds: the nodes of the account
\* trie and of the storage tries of its contract accounts, the code of
\* those accounts, the root entries of these tries and the snapshot meta
CompleteCopy(w) ==
    LET roots == {w.stateRoot} \cup ContractRoots(w)
    IN  {n.RawKey : n \in UNION {Range(w.tries[r]) : r \in roots}}
        \cup {<<"code", n.LeafKey[2]>> : n \in {m \in Range(w.tries[w.stateRoot]) :
                                                  m.kind = "leaf" /\ m.StorageRoot # "none"}}
        \cup {<<"root", r>> : r \in roots}
        \cup {<<"SnapshotMetaKey", 0>>}

\* the part of C37 about the content of the target storage
IterateTrieCopiesState ==
    (trieRun.typ = "IterateTrie" /\ trieRun.complete
        /\ trieRun.ops[Len(trieRun.ops)].arg = "nil") =>
        LET kv == Committed(trieRun.ops)
            prune == {<<"PruneJournalKey", "MinHeightStr">>,
                      <<"PruneJournalKey", "MaxHeightStr">>}
        IN  /\ CompleteCopy(trieRun.w) \subseteq kv
            /\ kv \ prune \subseteq CompleteCopy(trieRun.w)

\* C37: every call of IterateTrie returns, and after a successful one the
\* target storage holds every node of the account trie, every node of the
\* storage trie of every contract account, the code of these accounts, the
\* root entry of every trie traversed and the snapshot meta, and no trie
\* that only a storage slot names has been traversed.
C37_IterateTrieCompleteCopy ==
    (trieRun.typ = "IterateTrie") =>
        /\ \A cap \in ErrChanCaps : trieRun.returned[cap]
        /\ IterateTrieCopiesState

(***************************************************************************)
(* C38.  The three writes of Archive and the copied snapshot.              *)
(***************************************************************************)
\* a store reflects a block: of every journal the DirtySet keys outside its
\* PruneSet are present and the PruneSet keys are absent
BlockReflected(kv, sj) ==
    \A i \in 1..Len(sj.TrieJournal) :
        /\ (sj.TrieJournal[i].DirtySet \ sj.TrieJournal[i].PruneSet) \subseteq kv
        /\ sj.TrieJournal[i].PruneSet \cap kv = {}

\* the contents of the three stores
ArchiveStores(kv) == <<kv.journal, kv.history, kv.snapshot>>

\* Archive passes wg.Wait, evaluates the rotation condition and returns
ArchiveReturns == archCall # None /\ archCall' = None /\ archLog'.typ = "archive"

\* the part of the claim about the writes: when Archive evaluates the
\* rotation condition the three writes of the block are committed, a copied
\* snapshot reflects the block, and the history never loses a key
ArchiveWritesCommitted ==
    /\ archKV.history \subseteq archKV'.history
    /\ ArchiveReturns =>
         /\ archCall.pending = {}
         /\ archCall.height \in archKV.journal
         /\ HistoryPuts(StateJournal(archCall.height)) \subseteq archKV.history
         /\ BlockReflected(archKV.snapshot, StateJournal(archCall.height))
         /\ archLog'.copy # None =>
              BlockReflected(archLog'.copy.kv, StateJournal(archCall.height))

\* C38: the three writes of Archive are committed before the rotation
\* condition is evaluated and before Archive returns, a snapshot copied at a
\* height reflects the block of that height, the history never has a key
\* deleted, and a node that is not a data syncer writes nothing at all: its
\* three stores stay empty.
C38_ArchiveWritesThenRotates ==
    [][/\ ArchiveWritesCommitted
       /\ (chainState'.attached /\ ~chainState'.IsDataSyncer) =>
              ArchiveStores(archKV') = <<{}, {}, {}>>]_vars

\* C38 as the code has it: the same, but only a call of Archive that
\* begins while the chain state is attached and says that the node is not a
\* data syncer returns without a write; a call that begins before
\* UpdateChainState writes whatever the role of the node.
C38_ArchiveWritesThenRotatesAttached ==
    [][/\ ArchiveWritesCommitted
       /\ (archCall = None /\ chainState.known /\ ~chainState.IsDataSyncer) =>
              /\ archCall' = None
              /\ ArchiveStores(archKV') = ArchiveStores(archKV)]_vars

\* the block of height 2, with two journals, was archived after the block of
\* height 1 whose node it prunes, and the snapshot was copied
C38_Witness ==
    /\ archLog.typ = "archive"
    /\ archLog.height = 2
    /\ archLog.copy # None
    /\ 1 \in archKV.journal
    /\ chainState.known /\ chainState.IsDataSyncer

\* a node that is not a data syncer was asked to archive and returned at once
C38_WitnessNotSyncer ==
    /\ archLog.typ = "archive"
    /\ ~archLog.wrote
    /\ ~archLog.IsDataSyncer

(***************************************************************************)
(* The quorum arithmetic: Start and its quorum check for every number of   *)
(* validators from 0 to MaxValidators.                                     *)
(***************************************************************************)
QuorumInit ==
    /\ NewNode(Applied, 1, FALSE, FALSE)
    /\ NewClients
    /\ leLog = None
    /\ ctxLog = None
    /\ getCurrentEpochInfoFunc = EpochFetches({FirstEpoch})
    /\ RbftNewNode
    /\ \E n \in 0..MaxValidators, period \in RbftCheckpointPeriods : RbftConfig(n, period)
    /\ newTxRecords
    /\ NewArchiver
    /\ NewStateLedger
    /\ JournalFile(<<>>, 0)

QuorumNext ==
    \/ PeerChange
    \/ RbftStartRetry
    \/ RbftStart

QuorumSpec == QuorumInit /\ [][QuorumNext]_vars

(***************************************************************************)
(* C39.  The quorum of N validators.                                       *)
(***************************************************************************)
\* the quorum intersection and availability bounds for N >= 1 validators
QuorumOfValidators(N) ==
    LET f == (N - 1) \div 3
    IN  /\ Quorum(N) = (N + f + 2) \div 2
        /\ 2 * Quorum(N) - N >= f + 1
        /\ Quorum(N) <= N - f

\* the first part of the claim alone: the bounds for every N >= 1
QuorumBoundsFromOne == nodes >= 1 => QuorumOfValidators(nodes)

\* C39: for N >= 1 validators Quorum() = floor((N + f + 2) / 2) with
\* f = floor((N - 1) / 3), any two quorums share f + 1 validators and a
\* quorum fits into the N - f correct ones; for every N including 0, in
\* unsigned arithmetic, Quorum() is at most max(N, 1), so that the check
\* connected + 1 >= Quorum of Start can be met.
C39_QuorumBounds ==
    /\ nodes >= 1 => QuorumOfValidators(nodes)
    /\ Quorum(nodes) <= (IF nodes >= 1 THEN nodes ELSE 1)

\* Start passed its quorum check with seven validators, f = 2
C39_Witness ==
    /\ nodes = 7
    /\ startLog.passed
    /\ startLog.connected + 1 = Quorum(nodes)
    /\ Quorum(nodes) = 5

(***************************************************************************)
(* The journal with rotate and load in two steps each, so that consumeTxs  *)
(* runs between the step that takes r.writer away and the step that sets   *)
(* it again, and with callers that go on after the cancellation.           *)
(***************************************************************************)
JournalRaceNext ==
    \/ RotateClose
    \/ RotateReopen
    \/ LoadBegin
    \/ LoadReturn
    \/ insert2Chan
    \/ InsertClosed
    \/ ConsumeBatchFull
    \/ ConsumeTx
    \/ ConsumeTicker
    \/ JournalCancel
    \/ ConsumeCtxDone

JournalRaceSpec == JournalInit /\ [][JournalRaceNext]_vars

(***************************************************************************)
(* C40.  The writer task against rotate and load.                          *)
(***************************************************************************)
\* once rotate has completed, every transaction that consumeTxs flushed
\* while rotate or load was at work on r.writer has a whole record in the
\* journal
FlushedInWindowPresent ==
    (jWindow.phase = "none" /\ jRot.calls > 0 /\ jRot.ret = "nil") =>
        \A i \in 1..Len(jWindow.flushed) :
            \E k \in 1..Len(jLayout) :
                jLayout[k].tx = jWindow.flushed[i] /\ jLayout[k].whole

\* no send on r.txChan after consumeTxs has closed it
NoSendOnClosed == jPc # "panic"

\* C40: a transaction that consumeTxs flushes while rotate is between
\* closing the old writer and reopening the file, or while load has the
\* writer unset, is not dropped: after rotate has completed it is present in
\* the journal; and insert2Chan never sends on txChan after consumeTxs has
\* closed it.
C40_WriterHandleNeverInterferes ==
    /\ FlushedInWindowPresent
    /\ NoSendOnClosed

====
